---- MODULE Spec2Model ----
(***************************************************************************)
(* Flow-sequence generation and video-assembly pipeline of the mockups     *)
(* library: the connection graph linearizer (generateFlowFromPrototype),   *)
(* the uniform planners (generateSimpleFlow), the AI planner's validation  *)
(* (generateFlowWithAI) and the video pipeline routes.                     *)
(*                                                                         *)
(* Conventions                                                             *)
(*  - a string that the code inspects character by character (a node id)  *)
(*    is a tuple of one-character strings; node ids are non-empty; the     *)
(*    null destinationNodeId is NullId.                                    *)
(*  - a frame's display name is modelled by its position in the document,  *)
(*    so that two frames sharing an id stay distinguishable.               *)
(*  - durations are whole seconds.                                         *)
(***************************************************************************)
EXTENDS Integers, Sequences, FiniteSets, TLC

VARIABLES
    call,           \* which exported function is being invoked
    frames,         \* argument: FrameInfo[]
    connections,    \* argument: PrototypeConnection[]
    settings,       \* argument: FlowSettings
    pc,             \* position inside the invoked function
    orderedFrames,  \* generateFlowFromPrototype: const orderedFrames
    visitedIds,     \* generateFlowFromPrototype: const visitedIds
    currentId,      \* generateFlowFromPrototype: let currentId
    visitLog,       \* history: the value of currentId at each loop iteration
    planned,        \* generateFlowWithAI: the planner's parsed flowPlan.frames
    branch,         \* history: which return/throw statement produced the outcome
    result,         \* the returned GeneratedFlow, or NoResult
    route,          \* which video route handles the request
    request,        \* the parsed request body
    token,          \* getFigmaToken(): TRUE when FIGMA_ACCESS_TOKEN is set
    rpc,            \* position inside the route's POST handler
    planFrames,     \* the sequence (import-video) or flowPlan.frames (smart)
    retries,        \* let retries
    waitTime,       \* let waitTime (milliseconds)
    batchExports,   \* the export result the loop ended with
    exportCalls,    \* history: the nodeIds argument of every exportFrames call
    exportErrors,   \* history: the error of every failed exportFrames call
    waits,          \* history: every setTimeout delay awaited (milliseconds)
    frameIndex,     \* the materializer loop's position in the plan
    frameDataMap,   \* smart-generate-video: const frameDataMap, in insertion order
    frameImages,    \* frameImages / orderedFrameFiles handed to the encoder
    tempFiles,      \* const tempFiles
    unlinked,       \* history: the paths unlink() was called on
    dirs,           \* history: the directories the run created
    encoderRuns,    \* history: outcome of every encoder invocation
    assets,         \* history: number of asset records created
    response,       \* the route's response, or NoResponse
    batchEnd,       \* AI route: const batchEnd of the export loop
    ffmpegCmd,      \* the command or filter graph built for the encoder
    clipFiles,      \* createVideoWithTransitions: const clipFiles
    apc,            \* position inside createVideoWithTransitions
    created,        \* history: clip, list and video files written by the assembly
    fileCache,      \* figma client: const fileCache, file key -> entry
    now,            \* Date.now() (milliseconds)
    callers         \* every concurrent caller's position in getFileData

flowVars == <<call, frames, connections, settings, pc, orderedFrames,
              visitedIds, currentId, visitLog, planned, branch, result>>

pipeVars == <<route, request, token, rpc, planFrames, retries, waitTime, batchExports,
              exportCalls, exportErrors, waits, frameIndex, frameDataMap, frameImages,
              tempFiles, unlinked, dirs, encoderRuns, assets, response>>

asmVars == <<batchEnd, ffmpegCmd, clipFiles, apc, created>>

cacheVars == <<fileCache, now, callers>>

vars == <<flowVars, pipeVars, asmVars, cacheVars>>

----------------------------------------------------------------------------
(* Bounds of the model *)

MaxFrames == 3
MaxConns == 2
MaxPlan == 2

MaxSeq == 2
MaxFileFrames == 2
MaxFileConns == 1
MaxClips == 3
\* the clock advances MaxTicks times; a file is seen in MaxVersions versions
MaxTicks == 2
MaxVersions == 2

(* Program constants of the export retry loop *)

InitialRetries == 3
InitialWaitMs == 15000
MaxWaitMs == 60000

(* Universes *)

\* node ids in the two spellings Figma uses ("1:2" in the API, "1-2" in URLs)
Ids == {<<"1", ":", "2">>, <<"1", "-", "2">>, <<"3", ":", "4">>}
NullId == <<>>
Transitions == {"cut", "fade", "slow_fade"}
SettingsSet == {[duration |-> 2, transition |-> "fade"],
                [duration |-> 3, transition |-> "cut"]}
PlannerDurations == {1, 3}
PlannerTransitions == {"cut", "fade"}
NoResult == [frames |-> <<>>, totalDuration |-> -1]

SeqsUpTo(S, n) == UNION {[1..k -> S] : k \in 0..n}

\* FrameInfo[] : the i-th frame of the document carries name i
FrameListsUpTo(n) ==
    {[i \in 1..Len(s) |-> [id |-> s[i], name |-> i]] : s \in SeqsUpTo(Ids, n)}
FrameLists == FrameListsUpTo(MaxFrames)

\* PrototypeConnection[] (sourceNodeName and trigger are never read by the generator)
ConnectionSet == [sourceNodeId : Ids, destinationNodeId : Ids \cup {NullId}]
ConnectionLists == SeqsUpTo(ConnectionSet, MaxConns)

\* what the planner may answer: any frames, also ids that were never offered
PlannerFrames == [id : Ids, name : {0}, duration : PlannerDurations,
                  transition : PlannerTransitions]
PlannerPlans == SeqsUpTo(PlannerFrames, MaxPlan)

----------------------------------------------------------------------------
(* Pure helpers *)

RECURSIVE SumDurations(_)
SumDurations(fs) ==
    IF fs = <<>> THEN 0 ELSE fs[1].duration + SumDurations(Tail(fs))

IdsOf(fs) == [i \in 1..Len(fs) |-> fs[i].id]

Range(s) == {s[i] : i \in 1..Len(s)}

\* seeded fault: the plan is built through a map keyed by id, dropping repeated ids
UniformFramesKeyedById(fs, duration, transition) ==
    LET kept == SelectSeq([i \in 1..Len(fs) |-> [f |-> fs[i], i |-> i]],
                          LAMBDA e : \A j \in 1..(e.i - 1) : fs[j].id # e.f.id)
    IN [i \in 1..Len(kept) |->
           [id |-> kept[i].f.id, name |-> kept[i].f.name,
            duration |-> duration, transition |-> transition]]

\* frames.map(f => ({ id: f.id, name: f.name, duration, transition }))
UniformFrames(fs, duration, transition) ==
    [i \in 1..Len(fs) |->
        [id |-> fs[i].id, name |-> fs[i].name,
         duration |-> duration, transition |-> transition]]

\* the all-frames plan returned at three places of generateFlowFromPrototype
\* and by generateSimpleFlow
AllFramesPlan(fs, s) ==
    [frames |-> UniformFrames(fs, s.duration, s.transition),
     totalDuration |-> Len(fs) * s.duration]

\* new Map(frames.map(f => [f.id, f])) : the last frame with an id wins
FrameMapHas(fs, id) == \E i \in 1..Len(fs) : fs[i].id = id
FrameMapGet(fs, id) ==
    LET i == CHOOSE k \in 1..Len(fs) :
                 /\ fs[k].id = id
                 /\ \A j \in (k+1)..Len(fs) : fs[j].id # id
    IN fs[i]

\* new Set(connections.map(c => c.sourceNodeId)) in insertion order
RECURSIVE SourceIds(_)
SourceIds(cs) ==
    IF cs = <<>> THEN <<>>
    ELSE LET front == SourceIds(SubSeq(cs, 1, Len(cs) - 1))
             last == cs[Len(cs)].sourceNodeId
         IN IF last \in Range(front) THEN front ELSE Append(front, last)

\* new Set(connections.filter(c => c.destinationNodeId).map(...))
DestIds(cs) ==
    {cs[i].destinationNodeId : i \in {k \in 1..Len(cs) : cs[k].destinationNodeId # NullId}}

\* seeded fault: the entry points are listed last-first
EntryPointsReversed(cs) ==
    LET d == DestIds(cs)
        e == SelectSeq(SourceIds(cs), LAMBDA id : id \notin d)
    IN [i \in 1..Len(e) |-> e[Len(e) + 1 - i]]

\* [...sourceIds].filter(id => !destIds.has(id))
EntryPoints(cs) ==
    LET d == DestIds(cs) IN SelectSeq(SourceIds(cs), LAMBDA id : id \notin d)

\* seeded fault: the entry points are ignored, the first connection's source is used
StartIdFirstSource(cs) == cs[1].sourceNodeId

\* entryPoints[0] || connections[0]?.sourceNodeId   (connections is non-empty here)
StartId(cs) ==
    IF EntryPoints(cs) # <<>> THEN EntryPoints(cs)[1] ELSE cs[1].sourceNodeId

\* seeded fault: the last connection listed for the node is followed
NextIdLastListed(cs, cur) ==
    IF \E i \in 1..Len(cs) : cs[i].sourceNodeId = cur
    THEN LET i == CHOOSE k \in 1..Len(cs) :
                      /\ cs[k].sourceNodeId = cur
                      /\ \A j \in (k+1)..Len(cs) : cs[j].sourceNodeId # cur
         IN cs[i].destinationNodeId
    ELSE NullId

\* connections.find(c => c.sourceNodeId === currentId)?.destinationNodeId || null
NextId(cs, cur) ==
    IF \E i \in 1..Len(cs) : cs[i].sourceNodeId = cur
    THEN LET i == CHOOSE k \in 1..Len(cs) :
                      /\ cs[k].sourceNodeId = cur
                      /\ \A j \in 1..(k-1) : cs[j].sourceNodeId # cur
         IN cs[i].destinationNodeId
    ELSE NullId

\* the frame pushed for the current node, if frameMap knows it
PushFrame(ordered, fs, cur, s) ==
    IF FrameMapHas(fs, cur)
    THEN Append(ordered, [id |-> FrameMapGet(fs, cur).id,
                          name |-> FrameMapGet(fs, cur).name,
                          duration |-> s.duration,
                          transition |-> s.transition])
    ELSE ordered

\* return { frames: orderedFrames, totalDuration: orderedFrames.length * duration }
TraversalPlan(ordered, s) ==
    [frames |-> ordered, totalDuration |-> Len(ordered) * s.duration]

\* seeded fault: the cycle guard is missing
LoopGuardNoVisited(cur, visited) == cur # NullId

\* the while condition: currentId && !visitedIds.has(currentId)
LoopGuard(cur, visited) == cur # NullId /\ cur \notin visited

----------------------------------------------------------------------------
(* generateFlowFromPrototype *)

NoResponse == [status |-> 0, error |-> "none", framesCount |-> 0]

NoCmd == [kind |-> "none", inputs |-> <<>>, filters |-> <<>>]

\* createVideoWithTransitions is not running and nothing has been built
AssemblerIdle ==
    /\ batchEnd = 0
    /\ ffmpegCmd = NoCmd
    /\ clipFiles = <<>>
    /\ apc = "idle"
    /\ created = {}

\* figma client line 10: const CACHE_TTL = 5 * 60 * 1000
CACHE_TTL == 5 * 60 * 1000

\* the clock is read every half TTL
TickMs == CACHE_TTL \div 2

FileKeys == {"keyA", "keyB"}
Callers == {1, 2}

\* the top-level frames a document can hold, in document order
DocFrameIds == <<<<"1", ":", "2">>, <<"3", ":", "4">>, <<"1", "-", "2">>>>

\* GET /files/:key?depth=2 for version v of the file: v top-level frames, each
\* but the last with a reaction that leads to the next one
ApiResponse(k, v) ==
    [name |-> k, lastModified |-> v,
     children |-> [i \in 1..v |->
                      [id |-> DocFrameIds[i], name |-> i,
                       destinationId |-> IF i < v THEN DocFrameIds[i + 1]
                                         ELSE NullId]]]
ApiResponses == {ApiResponse(k, v) : k \in FileKeys, v \in 1..MaxVersions}

\* figma client lines 127-192: details, frames and connections taken out of
\* one response
FileDataOf(data) ==
    LET withReaction == SelectSeq(data.children, LAMBDA n : n.destinationId # NullId)
    IN [details |-> [name |-> data.name, lastModified |-> data.lastModified],
        frames |-> [i \in 1..Len(data.children) |->
                       [id |-> data.children[i].id, name |-> data.children[i].name]],
        connections |-> [i \in 1..Len(withReaction) |->
                            [sourceNodeId |-> withReaction[i].id,
                             destinationNodeId |-> withReaction[i].destinationId]]]

NoData == [details |-> [name |-> "", lastModified |-> 0],
           frames |-> <<>>, connections |-> <<>>]

\* fileCache.get(fileKey) of a key that was never set
NoEntry == [data |-> NoData, timestamp |-> -1]

IdleCaller == [pc |-> "idle", fileKey |-> "", useCache |-> FALSE, ret |-> NoData]

CacheIdle ==
    /\ fileCache = [k \in FileKeys |-> NoEntry]
    /\ now = 0
    /\ callers = [c \in Callers |-> IdleCaller]

\* no route is handling a request
PipelineIdle ==
    /\ route = "none"
    /\ request = [json |-> FALSE]
    /\ token = FALSE
    /\ rpc = "idle"
    /\ planFrames = <<>>
    /\ retries = 0
    /\ waitTime = 0
    /\ batchExports = <<>>
    /\ exportCalls = <<>>
    /\ exportErrors = <<>>
    /\ waits = <<>>
    /\ frameIndex = 0
    /\ frameDataMap = <<>>
    /\ frameImages = <<>>
    /\ tempFiles = <<>>
    /\ unlinked = <<>>
    /\ dirs = {}
    /\ encoderRuns = <<>>
    /\ assets = 0
    /\ response = NoResponse
    /\ AssemblerIdle

InitFlow ==
    /\ call \in {"prototype", "simple", "simpleDefault", "ai"}
    /\ frames \in FrameLists
    /\ connections \in IF call = "prototype" THEN ConnectionLists ELSE {<<>>}
    /\ settings \in IF call \in {"prototype", "simple"} THEN SettingsSet
                    ELSE {[duration |-> 2, transition |-> "fade"]}
    /\ pc = "start"
    /\ orderedFrames = <<>>
    /\ visitedIds = {}
    /\ currentId = NullId
    /\ visitLog = <<>>
    /\ planned = <<>>
    /\ branch = "none"
    /\ result = NoResult
    /\ PipelineIdle
    /\ CacheIdle

\* lines 232-262: the early return for no connections, else the choice of startId
GenerateStart ==
    /\ call = "prototype" /\ pc = "start"
    /\ IF Len(connections) = 0
       THEN /\ result' = AllFramesPlan(frames, settings)
            /\ branch' = "empty"
            /\ pc' = "done"
            /\ UNCHANGED currentId
       ELSE /\ currentId' = StartId(connections)
            /\ pc' = "loop"
            /\ UNCHANGED <<result, branch>>
    /\ UNCHANGED <<call, frames, connections, settings, orderedFrames, visitedIds,
                   visitLog, planned>>
    /\ UNCHANGED pipeVars
    /\ UNCHANGED cacheVars
    /\ UNCHANGED asmVars

\* seeded fault: an id that frameMap does not know ends the traversal
LoopIterDeadEnd ==
    /\ call = "prototype" /\ pc = "loop"
    /\ LoopGuard(currentId, visitedIds)
    /\ visitedIds' = visitedIds \cup {currentId}
    /\ visitLog' = Append(visitLog, currentId)
    /\ orderedFrames' = PushFrame(orderedFrames, frames, currentId, settings)
    /\ currentId' = IF FrameMapHas(frames, currentId)
                    THEN NextId(connections, currentId) ELSE NullId
    /\ UNCHANGED <<call, frames, connections, settings, pc, planned, branch, result>>
    /\ UNCHANGED pipeVars
    /\ UNCHANGED cacheVars
    /\ UNCHANGED asmVars

\* lines 264-280: one iteration of the while loop
LoopIter ==
    /\ call = "prototype" /\ pc = "loop"
    /\ LoopGuard(currentId, visitedIds)
    /\ visitedIds' = visitedIds \cup {currentId}
    /\ visitLog' = Append(visitLog, currentId)
    /\ orderedFrames' = PushFrame(orderedFrames, frames, currentId, settings)
    /\ currentId' = NextId(connections, currentId)
    /\ UNCHANGED <<call, frames, connections, settings, pc, planned, branch, result>>
    /\ UNCHANGED pipeVars
    /\ UNCHANGED cacheVars
    /\ UNCHANGED asmVars

\* seeded fault: the fallback is taken whenever the traversal missed a frame
LoopExitSparseFallback ==
    /\ call = "prototype" /\ pc = "loop"
    /\ ~LoopGuard(currentId, visitedIds)
    /\ IF Len(orderedFrames) < Len(frames)
       THEN /\ result' = AllFramesPlan(frames, settings)
            /\ branch' = "fallback"
       ELSE /\ result' = TraversalPlan(orderedFrames, settings)
            /\ branch' = "traversal"
    /\ pc' = "done"
    /\ UNCHANGED <<call, frames, connections, settings, orderedFrames, visitedIds,
                   currentId, visitLog, planned>>
    /\ UNCHANGED pipeVars
    /\ UNCHANGED cacheVars
    /\ UNCHANGED asmVars

\* lines 283-299: the loop has ended; fallback or traversal result
LoopExit ==
    /\ call = "prototype" /\ pc = "loop"
    /\ ~LoopGuard(currentId, visitedIds)
    /\ IF Len(orderedFrames) = 0
       THEN /\ result' = AllFramesPlan(frames, settings)
            /\ branch' = "fallback"
       ELSE /\ result' = TraversalPlan(orderedFrames, settings)
            /\ branch' = "traversal"
    /\ pc' = "done"
    /\ UNCHANGED <<call, frames, connections, settings, orderedFrames, visitedIds,
                   currentId, visitLog, planned>>
    /\ UNCHANGED pipeVars
    /\ UNCHANGED cacheVars
    /\ UNCHANGED asmVars

----------------------------------------------------------------------------
(* generateSimpleFlow (flow generator and AI client) and generateFlowWithAI *)

\* flow generator, lines 305-320
generateSimpleFlow(fs, s) == AllFramesPlan(fs, s)

\* AI client, lines 480-492: duration 2, transition 'fade'
generateSimpleFlowDefault(fs) ==
    [frames |-> UniformFrames(fs, 2, "fade"), totalDuration |-> Len(fs) * 2]

\* seeded fault: the planner's frames are taken as they come
ValidatedFramesNoFilter(fs, plan) == plan

\* flowPlan.frames.filter(f => validFrameIds.has(f.id))
ValidatedFrames(fs, plan) ==
    LET validFrameIds == {fs[i].id : i \in 1..Len(fs)}
    IN SelectSeq(plan, LAMBDA f : f.id \in validFrameIds)

\* seeded fault: the total is taken over the planner's frames before the filter
ValidatedPlanUnfilteredTotal(fs, plan) ==
    IF Len(ValidatedFrames(fs, plan)) = 0
    THEN [frames |-> UniformFrames(fs, 2, "fade"), totalDuration |-> Len(fs) * 2]
    ELSE [frames |-> ValidatedFrames(fs, plan),
          totalDuration |-> SumDurations(plan)]

\* lines 447-470: the plan returned for a non-empty parsed planner answer
ValidatedPlan(fs, plan) ==
    IF Len(ValidatedFrames(fs, plan)) = 0
    THEN [frames |-> UniformFrames(fs, 2, "fade"), totalDuration |-> Len(fs) * 2]
    ELSE [frames |-> ValidatedFrames(fs, plan),
          totalDuration |-> SumDurations(ValidatedFrames(fs, plan))]

\* the ways generateFlowWithAI throws before it holds a parsed plan
PlannerFailures == {"noApiKey", "httpError", "noContent", "parseError", "notArray"}

CallSimple ==
    /\ call = "simple" /\ pc = "start"
    /\ result' = generateSimpleFlow(frames, settings)
    /\ branch' = "simple"
    /\ pc' = "done"
    /\ UNCHANGED <<call, frames, connections, settings, orderedFrames, visitedIds,
                   currentId, visitLog, planned>>
    /\ UNCHANGED pipeVars
    /\ UNCHANGED cacheVars
    /\ UNCHANGED asmVars

CallSimpleDefault ==
    /\ call = "simpleDefault" /\ pc = "start"
    /\ result' = generateSimpleFlowDefault(frames)
    /\ branch' = "simple"
    /\ pc' = "done"
    /\ UNCHANGED <<call, frames, connections, settings, orderedFrames, visitedIds,
                   currentId, visitLog, planned>>
    /\ UNCHANGED pipeVars
    /\ UNCHANGED cacheVars
    /\ UNCHANGED asmVars

\* lines 354-445: a failure of the request, of the parse or of the shape check
CallAIThrows ==
    /\ call = "ai" /\ pc = "start"
    /\ \E why \in PlannerFailures \cup {"emptyPlan"} : branch' = why
    /\ pc' = "thrown"
    /\ UNCHANGED <<call, frames, connections, settings, orderedFrames, visitedIds,
                   currentId, visitLog, planned, result>>
    /\ UNCHANGED pipeVars
    /\ UNCHANGED cacheVars
    /\ UNCHANGED asmVars

\* lines 442-470: the planner answered with a non-empty frames array
CallAIPlans ==
    /\ call = "ai" /\ pc = "start"
    /\ \E plan \in PlannerPlans :
          /\ Len(plan) # 0
          /\ planned' = plan
          /\ result' = ValidatedPlan(frames, plan)
          /\ branch' = IF Len(ValidatedFrames(frames, plan)) = 0
                       THEN "aiFallback" ELSE "aiValidated"
    /\ pc' = "done"
    /\ UNCHANGED <<call, frames, connections, settings, orderedFrames, visitedIds,
                   currentId, visitLog>>
    /\ UNCHANGED pipeVars
    /\ UNCHANGED cacheVars
    /\ UNCHANGED asmVars

NextFlow ==
    \/ GenerateStart \/ LoopIter \/ LoopExit
    \/ CallSimple \/ CallSimpleDefault \/ CallAIThrows \/ CallAIPlans

SpecFlow == InitFlow /\ [][NextFlow]_vars

----------------------------------------------------------------------------
(* The video routes: import-video (explicit sequence), smart-generate-video  *)
(* (prototype plan) and the AI route (planner's plan)                         *)

Min(a, b) == IF a <= b THEN a ELSE b

\* request bodies; figmaUrl is absent, present but not matched by
\* parseFileKeyFromUrl, or a Figma file URL
UrlKinds == {"missing", "unparsable", "figma"}
SequenceStyles == {[duration |-> 2, transition |-> "cut"],
                   [duration |-> 3, transition |-> "fade"]}
SequenceFrames ==
    {[id |-> i, name |-> 0, duration |-> st.duration, transition |-> st.transition] :
        i \in Ids, st \in SequenceStyles}
SequenceLists == SeqsUpTo(SequenceFrames, MaxSeq)
NoSettings == [given |-> FALSE, duration |-> 0, transition |-> ""]
SmartSettings == {NoSettings,
                  [given |-> TRUE, duration |-> 0, transition |-> ""],
                  [given |-> TRUE, duration |-> 3, transition |-> "cut"]}
BadBody == [json |-> FALSE, figmaUrl |-> "missing", fileKey |-> FALSE,
            sequence |-> <<>>, settings |-> NoSettings, description |-> FALSE]
ImportRequests ==
    {BadBody} \cup [json : {TRUE}, figmaUrl : UrlKinds, fileKey : BOOLEAN,
                    sequence : SequenceLists, settings : {NoSettings},
                    description : {FALSE}]
SmartRequests ==
    {BadBody} \cup [json : {TRUE}, figmaUrl : UrlKinds, fileKey : {FALSE},
                    sequence : {<<>>}, settings : SmartSettings,
                    description : {FALSE}]
\* the AI route's body: description is present or not
AIRequests ==
    {BadBody} \cup [json : {TRUE}, figmaUrl : UrlKinds, fileKey : {FALSE},
                    sequence : {<<>>}, settings : {NoSettings},
                    description : BOOLEAN]

\* what the planner answers inside the AI route
RoutePlannerFrames == [id : Ids, name : {0}, duration : {2},
                       transition : {"cut", "fade"}]
RoutePlans == SeqsUpTo(RoutePlannerFrames, MaxPlan)

\* AI route line 230: const BATCH_SIZE = 5, and the pause between batches
BATCH_SIZE == 5
BatchPauseMs == 500

\* what getFileData can return: the top-level frames of a document (their ids
\* are unique) and its connections (their destination is never null, their
\* source may be any node)
FileFrameLists ==
    {f \in FrameListsUpTo(MaxFileFrames) :
        \A i, j \in 1..Len(f) : i # j => f[i].id # f[j].id}
FileConnectionLists ==
    SeqsUpTo([sourceNodeId : Ids, destinationNodeId : Ids], MaxFileConns)

\* an error thrown by exportFrames: the HTTP status of the FigmaApiError and
\* whether its message, "Figma API error: " + response body, contains "429" or
\* "Rate limit". Figma's rate-limit body names its status and "Rate limit".
ExportFailures ==
    {[status |-> 429, has429 |-> TRUE, hasRateLimit |-> TRUE],
     [status |-> 403, has429 |-> FALSE, hasRateLimit |-> FALSE],
     [status |-> 500, has429 |-> TRUE, hasRateLimit |-> FALSE]}

\* errorMsg.includes('429') || errorMsg.includes('Rate limit')
IsRateLimitMessage(e) == e.has429 \/ e.hasRateLimit

\* Object.entries(data.images): one entry per returned node id, in any order,
\* with a null imageUrl for a node that could not be rendered
NoUrl == "null"
ExportEntries(ids) == [nodeId : Range(ids), imageUrl : {"url", NoUrl}]
ExportResults(ids) ==
    {r \in SeqsUpTo(ExportEntries(ids), Cardinality(Range(ids))) :
        \A i, j \in 1..Len(r) : i # j => r[i].nodeId # r[j].nodeId}

\* seeded fault: an entry counts even when its imageUrl is null
HasImageUrlAnyEntry(exports, id) ==
    \E i \in 1..Len(exports) : exports[i].nodeId = id

\* batchExports.find(r => r.nodeId === id)?.imageUrl is truthy
HasImageUrl(exports, id) ==
    \E i \in 1..Len(exports) :
        /\ exports[i].nodeId = id
        /\ \A j \in 1..(i - 1) : exports[j].nodeId # id
        /\ exports[i].imageUrl # NoUrl

\* seeded fault: the wait is not doubled
NextWaitTimeConstant(w) == Min(w, MaxWaitMs)

\* Math.min(waitTime * 2, 60000)
NextWaitTime(w) == Min(w * 2, MaxWaitMs)

Alphanumeric ==
    {"0", "1", "2", "3", "4", "5", "6", "7", "8", "9",
     "a", "b", "c", "d", "e", "f", "g", "h", "i", "j", "k", "l", "m",
     "n", "o", "p", "q", "r", "s", "t", "u", "v", "w", "x", "y", "z",
     "A", "B", "C", "D", "E", "F", "G", "H", "I", "J", "K", "L", "M",
     "N", "O", "P", "Q", "R", "S", "T", "U", "V", "W", "X", "Y", "Z"}

\* id.replace(/[^a-zA-Z0-9]/g, '_')
Sanitize(id) == [i \in 1..Len(id) |-> IF id[i] \in Alphanumeric THEN id[i] ELSE "_"]

DigitChar == <<"0", "1", "2", "3", "4", "5", "6", "7", "8", "9">>

\* String(i).padStart(4, '0') for the loop index i (0-based, below 10)
PadStart4(i) == <<"0", "0", "0", DigitChar[i + 1]>>

\* path.join(tempDir, `frame_${...}.png`)
ImportFramePath(i) == <<"frame">> \o PadStart4(i)
SmartFramePath(id) == <<"frame">> \o Sanitize(id)

----------------------------------------------------------------------------
(* The encoder commands: buildFFmpegCommand of import-video and the merge     *)
(* filter of the per-clip createVideoWithTransitions. Times are milliseconds. *)

Max(a, b) == IF a >= b THEN a ELSE b

\* a duration in seconds, as the milliseconds the offsets are computed in
Ms(d) == d * 1000

\* import-video line 301: const transitionDuration = 0.5
TransitionMs == 500

\* a stream label of the filter graph: [3:v] is Label("in", 3), [v3] is
\* Label("v", 3), [trans3] is Label("trans", 3), [outv] is OutV
Label(name, n) == [name |-> name, n |-> n]
OutV == Label("outv", 0)

\* one filter of the graph, `[ins...]op=...[out]`
FilterPart(op, ins, out, type, duration, offset) ==
    [op |-> op, ins |-> ins, out |-> out, type |-> type,
     duration |-> duration, offset |-> offset]

\* import-video lines 270-287
buildSimpleFFmpegCommand(fs) ==
    [kind |-> "simple",
     inputs |-> [i \in 1..Len(fs) |-> [t |-> Ms(fs[i].duration), path |-> fs[i].path]],
     filters |->
        [i \in 1..Len(fs) |->
            FilterPart("scale", <<Label("in", i - 1)>>, Label("v", i - 1), "", 0, 0)]
        \o <<FilterPart("concat", [i \in 1..Len(fs) |-> Label("v", i - 1)], OutV,
                        "", 0, 0)>>]

\* seeded fault: the last clip is extended as well
EffectiveDurationLastToo(fs, i) ==
    Ms(fs[i].duration) + (IF fs[i].transition # "cut" THEN TransitionMs ELSE 0)

\* import-video lines 305-306 for frames[i - 1]: the clip is held for the
\* transition's length as well when a transition leads to the next clip
EffectiveDuration(fs, i) ==
    Ms(fs[i].duration)
        + (IF i < Len(fs) /\ fs[i].transition # "cut" THEN TransitionMs ELSE 0)

\* seeded fault: the running offset grows by the extended duration of each clip
RECURSIVE ChainPartsDrift(_, _, _, _)
ChainPartsDrift(fs, i, currentStream, offset) ==
    IF i >= Len(fs) THEN <<>>
    ELSE LET prevFrame == fs[i]
             nextStream == Label("v", i)
             outputStream == IF i = Len(fs) - 1 THEN OutV ELSE Label("trans", i)
             part == IF prevFrame.transition = "cut"
                     THEN FilterPart("concat", <<currentStream, nextStream>>,
                                     outputStream, "", 0, 0)
                     ELSE FilterPart("xfade", <<currentStream, nextStream>>,
                                     outputStream,
                                     IF prevFrame.transition = "fade" THEN "fade"
                                     ELSE "slideleft",
                                     TransitionMs, offset - TransitionMs)
         IN <<part>> \o ChainPartsDrift(fs, i + 1, outputStream,
                                        offset + EffectiveDuration(fs, i + 1))

\* import-video lines 319-335: the loop body for index i (frames[i] is
\* fs[i + 1]) and the iterations after it
RECURSIVE ChainParts(_, _, _, _)
ChainParts(fs, i, currentStream, offset) ==
    IF i >= Len(fs) THEN <<>>
    ELSE LET prevFrame == fs[i]
             nextStream == Label("v", i)
             outputStream == IF i = Len(fs) - 1 THEN OutV ELSE Label("trans", i)
             part == IF prevFrame.transition = "cut"
                     THEN FilterPart("concat", <<currentStream, nextStream>>,
                                     outputStream, "", 0, 0)
                     ELSE FilterPart("xfade", <<currentStream, nextStream>>,
                                     outputStream,
                                     IF prevFrame.transition = "fade" THEN "fade"
                                     ELSE "slideleft",
                                     TransitionMs, offset - TransitionMs)
         IN <<part>> \o ChainParts(fs, i + 1, outputStream,
                                   offset + Ms(fs[i + 1].duration))

\* seeded fault: every input is held for its nominal duration only
buildComplexFFmpegCommandNominalInputs(fs) ==
    [kind |-> "complex",
     inputs |-> [i \in 1..Len(fs) |-> [t |-> Ms(fs[i].duration), path |-> fs[i].path]],
     filters |->
        [i \in 1..Len(fs) |->
            FilterPart("scaleFps", <<Label("in", i - 1)>>, Label("v", i - 1), "", 0, 0)]
        \o ChainParts(fs, 1, Label("v", 0), Ms(fs[1].duration))
        \o (IF Len(fs) = 1
            THEN <<FilterPart("copy", <<Label("v", 0)>>, OutV, "", 0, 0)>>
            ELSE <<>>)]

\* import-video lines 292-345 (called with at least one frame)
buildComplexFFmpegCommand(fs) ==
    [kind |-> "complex",
     inputs |-> [i \in 1..Len(fs) |-> [t |-> EffectiveDuration(fs, i),
                                       path |-> fs[i].path]],
     filters |->
        [i \in 1..Len(fs) |->
            FilterPart("scaleFps", <<Label("in", i - 1)>>, Label("v", i - 1), "", 0, 0)]
        \o ChainParts(fs, 1, Label("v", 0), Ms(fs[1].duration))
        \o (IF Len(fs) = 1
            THEN <<FilterPart("copy", <<Label("v", 0)>>, OutV, "", 0, 0)>>
            ELSE <<>>)]

\* seeded fault: the transition of the last frame, which joins nothing, is not looked at
buildFFmpegCommandJoinsOnly(fs) ==
    IF \A i \in 1..(Len(fs) - 1) : fs[i].transition = "cut"
    THEN buildSimpleFFmpegCommand(fs)
    ELSE buildComplexFFmpegCommand(fs)

\* import-video lines 251-265
buildFFmpegCommand(fs) ==
    IF \A i \in 1..Len(fs) : fs[i].transition = "cut"
    THEN buildSimpleFFmpegCommand(fs)
    ELSE buildComplexFFmpegCommand(fs)

\* AI route lines 85-86: the length of the transition after a frame
AITransitionMs(t) == IF t = "slow_fade" THEN 1000 ELSE IF t = "fade" THEN 500 ELSE 0

\* AI route line 75
hasTransitions(fs) ==
    \E i \in 1..Len(fs) : fs[i].transition \in {"fade", "slow_fade"}

\* AI route lines 83-101: the loop body for index i and the iterations after it
RECURSIVE MergeParts(_, _, _)
MergeParts(fs, i, currentInput) ==
    IF i >= Len(fs) THEN <<>>
    ELSE LET prevFrame == fs[i]
             transitionDuration == AITransitionMs(prevFrame.transition)
             offset == Ms(prevFrame.duration) - transitionDuration
             outputLabel == IF i < Len(fs) - 1 THEN Label("v", i) ELSE OutV
             part == IF transitionDuration > 0
                     THEN FilterPart("xfade", <<currentInput, Label("in", i)>>,
                                     outputLabel, "fade", transitionDuration,
                                     Max(0, offset))
                     ELSE FilterPart("concat", <<currentInput, Label("in", i)>>,
                                     outputLabel, "", 0, 0)
         IN <<part>> \o MergeParts(fs, i + 1, outputLabel)

\* AI route lines 80-109: the merge command over the clip files
MergeCommand(fs, clips) ==
    [kind |-> "merge",
     inputs |-> [i \in 1..Len(clips) |-> [t |-> 0, path |-> clips[i]]],
     filters |-> MergeParts(fs, 1, Label("in", 0))]

\* simpleConcatVideos lines 137-141 (smart-generate-video lines 67-71): the
\* list of the clip files in order, and the concat command that reads it
ConcatCommand(clips) ==
    [kind |-> "concat",
     inputs |-> [i \in 1..Len(clips) |-> [t |-> 0, path |-> clips[i]]],
     filters |-> <<>>]

\* path.join(tempDir, `clip_${i}.mp4`), path.join(tempDir, 'concat.txt') and videoPath
ClipPath(i) == <<"clip", DigitChar[i + 1]>>
ConcatFilePath == <<"concat">>
VideoPath == <<"video">>

Response(status, error, n) == [status |-> status, error |-> error, framesCount |-> n]

InitPipeline ==
    /\ route \in {"import", "smart", "ai"}
    /\ request \in IF route = "import" THEN ImportRequests
                   ELSE IF route = "smart" THEN SmartRequests ELSE AIRequests
    /\ token \in BOOLEAN
    /\ rpc = "start"
    /\ planFrames = <<>>
    /\ retries = 0
    /\ waitTime = 0
    /\ batchExports = <<>>
    /\ exportCalls = <<>>
    /\ exportErrors = <<>>
    /\ waits = <<>>
    /\ frameIndex = 0
    /\ frameDataMap = <<>>
    /\ frameImages = <<>>
    /\ tempFiles = <<>>
    /\ unlinked = <<>>
    /\ dirs = {}
    /\ encoderRuns = <<>>
    /\ assets = 0
    /\ response = NoResponse
    /\ AssemblerIdle
    /\ CacheIdle
    /\ call = "none"
    /\ frames = <<>>
    /\ connections = <<>>
    /\ settings = [duration |-> 2, transition |-> "fade"]
    /\ pc = "idle"
    /\ orderedFrames = <<>>
    /\ visitedIds = {}
    /\ currentId = NullId
    /\ visitLog = <<>>
    /\ planned = <<>>
    /\ branch = "none"
    /\ result = NoResult

\* an early `return NextResponse.json(...)` inside the try block
Return(status, error, n) ==
    /\ response' = Response(status, error, n)
    /\ rpc' = "done"
    /\ UNCHANGED unlinked

\* the catch block of POST: unlink every temp file, answer 500 with the message
Catch(error) ==
    /\ unlinked' = unlinked \o tempFiles
    /\ response' = Response(500, error, 0)
    /\ rpc' = "done"

\* import-video lines 57-98: body, URL, sequence, token, file key
ImportValidate ==
    /\ route = "import" /\ rpc = "start"
    /\ IF ~request.json THEN Catch("exception") /\ UNCHANGED planFrames
       ELSE IF request.figmaUrl = "missing"
            THEN Return(400, "urlRequired", 0) /\ UNCHANGED planFrames
       ELSE IF Len(request.sequence) < 2
            THEN Return(400, "sequenceTooShort", 0) /\ UNCHANGED planFrames
       ELSE IF ~token
            THEN Return(401, "tokenMissing", 0) /\ UNCHANGED planFrames
       ELSE IF ~request.fileKey /\ request.figmaUrl # "figma"
            THEN Return(400, "invalidUrl", 0) /\ UNCHANGED planFrames
       ELSE /\ planFrames' = request.sequence
            /\ rpc' = "mkdir"
            /\ UNCHANGED <<response, unlinked>>
    /\ UNCHANGED <<route, request, token, retries, waitTime, batchExports,
                   exportCalls, exportErrors, waits, frameIndex, frameDataMap,
                   frameImages, tempFiles, dirs, encoderRuns, assets>>
    /\ UNCHANGED flowVars
    /\ UNCHANGED cacheVars
    /\ UNCHANGED asmVars

\* smart-generate-video lines 96-121: body, URL, token, file key
SmartValidate ==
    /\ route = "smart" /\ rpc = "start"
    /\ IF ~request.json THEN Catch("exception")
       ELSE IF request.figmaUrl = "missing" THEN Return(400, "urlRequired", 0)
       ELSE IF ~token THEN Return(401, "tokenMissing", 0)
       ELSE IF request.figmaUrl # "figma" THEN Return(400, "invalidUrl", 0)
       ELSE /\ rpc' = "fileData"
            /\ UNCHANGED <<response, unlinked>>
    /\ UNCHANGED <<route, request, token, planFrames, retries, waitTime,
                   batchExports, exportCalls, exportErrors, waits, frameIndex,
                   frameDataMap, frameImages, tempFiles, dirs, encoderRuns, assets>>
    /\ UNCHANGED flowVars
    /\ UNCHANGED cacheVars
    /\ UNCHANGED asmVars

\* smart-generate-video lines 123-146: getFileData, the frames check, the flow
\* settings, and the call of generateFlowFromPrototype
SmartGetFileData ==
    /\ route = "smart" /\ rpc = "fileData"
    /\ \/ /\ Catch("fileDataError")
          /\ UNCHANGED flowVars
       \/ \E fs \in FileFrameLists, cs \in FileConnectionLists :
             IF Len(fs) = 0
             THEN Return(400, "noFrames", 0) /\ UNCHANGED flowVars
             ELSE IF ~request.settings.given
             THEN Catch("exception") /\ UNCHANGED flowVars
             ELSE /\ frames' = fs
                  /\ connections' = cs
                  /\ settings' =
                       [duration |-> IF request.settings.duration = 0 THEN 2
                                     ELSE request.settings.duration,
                        transition |-> IF request.settings.transition = "" THEN "fade"
                                       ELSE request.settings.transition]
                  /\ call' = "prototype"
                  /\ pc' = "start"
                  /\ rpc' = "planning"
                  /\ UNCHANGED <<orderedFrames, visitedIds, currentId, visitLog,
                                 planned, branch, result, response, unlinked>>
    /\ UNCHANGED <<route, request, token, planFrames, retries, waitTime,
                   batchExports, exportCalls, exportErrors, waits, frameIndex,
                   frameDataMap, frameImages, tempFiles, dirs, encoderRuns, assets>>
    /\ UNCHANGED asmVars
    /\ UNCHANGED cacheVars

\* smart-generate-video lines 148-153: the plan has been returned
SmartPlanReady ==
    /\ route = "smart" /\ rpc = "planning" /\ pc = "done"
    /\ IF Len(result.frames) = 0
       THEN Return(400, "noFlow", 0) /\ UNCHANGED planFrames
       ELSE /\ planFrames' = result.frames
            /\ rpc' = "mkdir"
            /\ UNCHANGED <<response, unlinked>>
    /\ UNCHANGED <<route, request, token, retries, waitTime, batchExports,
                   exportCalls, exportErrors, waits, frameIndex, frameDataMap,
                   frameImages, tempFiles, dirs, encoderRuns, assets>>
    /\ UNCHANGED flowVars
    /\ UNCHANGED cacheVars
    /\ UNCHANGED asmVars

\* import-video lines 100-111, smart-generate-video lines 155-166: the temp
\* directory and the loop's initial retries and waitTime (AI route lines
\* 225-231: the temp directory only)
MakeTempDir ==
    /\ rpc = "mkdir"
    /\ \/ /\ Catch("exception")
          /\ UNCHANGED <<dirs, retries, waitTime>>
       \/ /\ dirs' = dirs \cup {"temp"}
          /\ IF route = "ai"
             THEN UNCHANGED <<retries, waitTime>>
             ELSE /\ retries' = InitialRetries
                  /\ waitTime' = InitialWaitMs
          /\ rpc' = "export"
          /\ UNCHANGED <<response, unlinked>>
    /\ UNCHANGED <<route, request, token, planFrames, batchExports, exportCalls,
                   exportErrors, waits, frameIndex, frameDataMap, frameImages,
                   tempFiles, encoderRuns, assets>>
    /\ UNCHANGED flowVars
    /\ UNCHANGED cacheVars
    /\ UNCHANGED asmVars

\* seeded fault: retries is never decremented
ExportFailedNoDecrement(e) ==
    /\ exportErrors' = Append(exportErrors, e)
    /\ UNCHANGED <<batchExports, frameIndex>>
    /\ IF IsRateLimitMessage(e)
       THEN /\ retries' = retries
            /\ IF retries > 0
               THEN /\ waits' = Append(waits, waitTime)
                    /\ waitTime' = NextWaitTime(waitTime)
                    /\ UNCHANGED <<rpc, response, unlinked>>
               ELSE /\ Catch("rateLimitExceeded")
                    /\ UNCHANGED <<waits, waitTime>>
       ELSE /\ Catch("exportError")
            /\ UNCHANGED <<retries, waits, waitTime>>

\* the catch clause of the retry loop for the error e (import-video lines
\* 118-132, smart-generate-video lines 174-188)
ExportFailed(e) ==
    /\ exportErrors' = Append(exportErrors, e)
    /\ UNCHANGED <<batchExports, frameIndex>>
    /\ IF IsRateLimitMessage(e)
       THEN /\ retries' = retries - 1
            /\ IF retries - 1 > 0
               THEN /\ waits' = Append(waits, waitTime)
                    /\ waitTime' = NextWaitTime(waitTime)
                    /\ UNCHANGED <<rpc, response, unlinked>>
               ELSE /\ Catch("rateLimitExceeded")
                    /\ UNCHANGED <<waits, waitTime>>
       ELSE /\ Catch("exportError")
            /\ UNCHANGED <<retries, waits, waitTime>>

\* one pass of `while (retries > 0)`: one exportFrames call for all frame ids,
\* then break, wait and retry, or throw
ExportAttempt ==
    /\ route \in {"import", "smart"}
    /\ rpc = "export" /\ retries > 0
    /\ exportCalls' = Append(exportCalls, IdsOf(planFrames))
    /\ \/ \E r \in ExportResults(IdsOf(planFrames)) :
             /\ batchExports' = r
             /\ frameIndex' = 1
             /\ rpc' = "materialize"
             /\ UNCHANGED <<exportErrors, retries, waits, waitTime, response, unlinked>>
       \/ \E e \in ExportFailures :
             /\ Len(planFrames) # 0
             /\ ExportFailed(e)
    /\ UNCHANGED <<route, request, token, planFrames, frameDataMap, frameImages,
                   tempFiles, dirs, encoderRuns, assets>>
    /\ UNCHANGED flowVars
    /\ UNCHANGED cacheVars
    /\ UNCHANGED asmVars

\* frameDataMap.set(id, data): a known key keeps its place, a new one goes last
MapSet(map, id, data) ==
    IF \E i \in 1..Len(map) : map[i].id = id
    THEN [i \in 1..Len(map) |-> IF map[i].id = id THEN data ELSE map[i]]
    ELSE Append(map, data)

MapHas(map, id) == \E i \in 1..Len(map) : map[i].id = id
MapGet(map, id) == map[CHOOSE i \in 1..Len(map) : map[i].id = id]

\* flowPlan.frames.filter(f => frameDataMap.has(f.id)).map(f => frameDataMap.get(f.id)!)
OrderedFrameFiles(fp, map) ==
    LET kept == SelectSeq(fp, LAMBDA f : MapHas(map, f.id))
    IN [i \in 1..Len(kept) |-> MapGet(map, kept[i].id)]

\* where the download loop ends: the plan's end, or the batch's in the AI route
LoopEnd == IF route = "ai" THEN batchEnd ELSE Len(planFrames)

\* one iteration of the download loop (import-video lines 140-155,
\* smart-generate-video lines 196-210, AI route lines 242-257): download,
\* write, record
MaterializeFrame ==
    /\ rpc = "materialize" /\ frameIndex <= LoopEnd
    /\ LET frame == planFrames[frameIndex]
           framePath == IF route = "import" THEN ImportFramePath(frameIndex - 1)
                        ELSE SmartFramePath(frame.id)
           data == [id |-> frame.id, path |-> framePath,
                    duration |-> frame.duration, transition |-> frame.transition]
       IN IF HasImageUrl(batchExports, frame.id)
          THEN \/ /\ Catch("downloadFailed")
                  /\ UNCHANGED <<frameIndex, frameDataMap, frameImages, tempFiles>>
               \/ /\ Catch("exception")
                  /\ UNCHANGED <<frameIndex, frameDataMap, frameImages, tempFiles>>
               \/ /\ tempFiles' = Append(tempFiles, framePath)
                  /\ IF route = "import"
                     THEN /\ frameImages' = Append(frameImages, data)
                          /\ UNCHANGED frameDataMap
                     ELSE /\ frameDataMap' = MapSet(frameDataMap, frame.id, data)
                          /\ UNCHANGED frameImages
                  /\ frameIndex' = frameIndex + 1
                  /\ UNCHANGED <<rpc, response, unlinked>>
          ELSE /\ frameIndex' = frameIndex + 1
               /\ UNCHANGED <<frameDataMap, frameImages, tempFiles, rpc, response,
                              unlinked>>
    /\ UNCHANGED <<route, request, token, planFrames, retries, waitTime,
                   batchExports, exportCalls, exportErrors, waits, dirs,
                   encoderRuns, assets>>
    /\ UNCHANGED flowVars
    /\ UNCHANGED cacheVars
    /\ UNCHANGED asmVars

\* seeded fault: an empty list goes on to the encoder
MaterializeDoneNoEmptyCheck ==
    /\ rpc = "materialize" /\ frameIndex > LoopEnd
    /\ IF route = "ai" /\ batchEnd < Len(planFrames)
       THEN /\ waits' = Append(waits, BatchPauseMs)
            /\ rpc' = "export"
            /\ UNCHANGED <<frameImages, response, unlinked>>
       ELSE LET files == IF route = "import" THEN frameImages
                         ELSE OrderedFrameFiles(planFrames, frameDataMap)
            IN /\ frameImages' = files
               /\ rpc' = "encode"
               /\ UNCHANGED <<waits, response, unlinked>>
    /\ UNCHANGED <<route, request, token, planFrames, retries, waitTime,
                   batchExports, exportCalls, exportErrors, frameIndex,
                   frameDataMap, tempFiles, dirs, encoderRuns, assets>>
    /\ UNCHANGED flowVars
    /\ UNCHANGED cacheVars
    /\ UNCHANGED asmVars

\* after the download loop (import-video lines 157-164, smart-generate-video
\* lines 212-224, AI route lines 259-275): the pause before the next batch of
\* the AI route, else the list for the encoder and the answer when it is empty
MaterializeDone ==
    /\ rpc = "materialize" /\ frameIndex > LoopEnd
    /\ IF route = "ai" /\ batchEnd < Len(planFrames)
       THEN /\ waits' = Append(waits, BatchPauseMs)
            /\ rpc' = "export"
            /\ UNCHANGED <<frameImages, response, unlinked>>
       ELSE LET files == IF route = "import" THEN frameImages
                         ELSE OrderedFrameFiles(planFrames, frameDataMap)
            IN /\ frameImages' = files
               /\ IF Len(files) = 0
                  THEN Return(500, "noFramesExported", 0)
                  ELSE rpc' = "encode" /\ UNCHANGED <<response, unlinked>>
               /\ UNCHANGED waits
    /\ UNCHANGED <<route, request, token, planFrames, retries, waitTime,
                   batchExports, exportCalls, exportErrors, frameIndex,
                   frameDataMap, tempFiles, dirs, encoderRuns, assets>>
    /\ UNCHANGED flowVars
    /\ UNCHANGED cacheVars
    /\ UNCHANGED asmVars

\* the route's variables that the assembly never writes
routeVars == <<route, request, token, rpc, planFrames, retries, waitTime,
               batchExports, exportCalls, exportErrors, waits, frameIndex,
               frameDataMap, frameImages, tempFiles, dirs, assets, response,
               batchEnd>>

\* one encoder invocation: what it was, the files it read, whether it succeeded
Run(kind, inputs, ok) == [kind |-> kind, inputs |-> inputs, ok |-> ok]

PathsOf(fs) == [i \in 1..Len(fs) |-> fs[i].path]

\* the files an invocation leaves behind: those it completes when it
\* succeeds; when it fails, a partial output or nothing
Written(ok, partial, outputs) == IF ok \/ partial THEN outputs ELSE {}

\* the uploads directory, then the command of import-video (lines 166-176) or
\* the call of createVideoWithTransitions (smart-generate-video lines 226-235,
\* AI route lines 277-286)
Encode ==
    /\ rpc = "encode"
    /\ \/ /\ Catch("exception")
          /\ UNCHANGED <<dirs, ffmpegCmd, apc>>
       \/ /\ dirs' = dirs \cup {"uploads"}
          /\ IF route = "import"
             THEN /\ ffmpegCmd' = buildFFmpegCommand(frameImages)
                  /\ rpc' = "exec"
                  /\ UNCHANGED apc
             ELSE /\ apc' = "start"
                  /\ rpc' = "assemble"
                  /\ UNCHANGED ffmpegCmd
          /\ UNCHANGED <<response, unlinked>>
    /\ UNCHANGED <<route, request, token, planFrames, retries, waitTime,
                   batchExports, exportCalls, exportErrors, waits, frameIndex,
                   frameDataMap, frameImages, tempFiles, encoderRuns, assets>>
    /\ UNCHANGED <<batchEnd, clipFiles, created>>
    /\ UNCHANGED flowVars
    /\ UNCHANGED cacheVars

\* import-video lines 178-188: the encoder runs the command
ExecFFmpeg ==
    /\ route = "import" /\ rpc = "exec"
    /\ \E ok, partial \in BOOLEAN :
          /\ encoderRuns' = Append(encoderRuns, Run("ffmpeg", PathsOf(frameImages), ok))
          /\ created' = created \cup Written(ok, partial, {VideoPath})
          /\ IF ok THEN rpc' = "persist" /\ UNCHANGED <<response, unlinked>>
             ELSE Return(500, "encodingFailed", 0)
    /\ UNCHANGED <<route, request, token, planFrames, retries, waitTime,
                   batchExports, exportCalls, exportErrors, waits, frameIndex,
                   frameDataMap, frameImages, tempFiles, dirs, assets>>
    /\ UNCHANGED <<batchEnd, ffmpegCmd, clipFiles, apc>>
    /\ UNCHANGED flowVars
    /\ UNCHANGED cacheVars

\* createVideoWithTransitions before its try block (smart-generate-video lines
\* 41-53, AI route lines 37-54): no frames, one frame, or the clip loop
AsmStart ==
    /\ route \in {"smart", "ai"} /\ apc = "start"
    /\ IF Len(frameImages) = 0
       THEN apc' = "thrown" /\ UNCHANGED <<encoderRuns, created>>
       ELSE IF Len(frameImages) = 1
       THEN \E ok, partial \in BOOLEAN :
               /\ encoderRuns' = Append(encoderRuns,
                                        Run("single", PathsOf(frameImages), ok))
               /\ created' = created \cup Written(ok, partial, {VideoPath})
               /\ apc' = IF ok THEN "returned" ELSE "thrown"
       ELSE apc' = "clips" /\ UNCHANGED <<encoderRuns, created>>
    /\ UNCHANGED <<ffmpegCmd, clipFiles, unlinked>>
    /\ UNCHANGED routeVars
    /\ UNCHANGED flowVars
    /\ UNCHANGED cacheVars

\* one iteration of the clip loop (smart-generate-video lines 57-64, AI route
\* lines 58-66): the path is recorded, then the encoder makes the clip
AsmClip ==
    /\ apc = "clips" /\ Len(clipFiles) < Len(frameImages)
    /\ LET i == Len(clipFiles)
           clipPath == ClipPath(i)
       IN /\ clipFiles' = Append(clipFiles, clipPath)
          /\ \E ok, partial \in BOOLEAN :
                /\ encoderRuns' = Append(encoderRuns,
                                         Run("clip", <<frameImages[i + 1].path>>, ok))
                /\ created' = created \cup Written(ok, partial, {clipPath})
                /\ apc' = IF ok THEN "clips" ELSE "finallyThrow"
    /\ UNCHANGED <<ffmpegCmd, unlinked>>
    /\ UNCHANGED routeVars
    /\ UNCHANGED flowVars
    /\ UNCHANGED cacheVars

\* seeded fault: a failure of the merge command is thrown on, without the fallback
AsmMergeNoFallback ==
    /\ route = "ai" /\ apc = "clips" /\ Len(clipFiles) = Len(frameImages)
    /\ IF hasTransitions(frameImages)
       THEN /\ ffmpegCmd' = MergeCommand(frameImages, clipFiles)
            /\ \E ok, partial \in BOOLEAN :
                  /\ encoderRuns' = Append(encoderRuns, Run("merge", clipFiles, ok))
                  /\ created' = created \cup Written(ok, partial, {VideoPath})
                  /\ apc' = IF ok THEN "finallyReturn" ELSE "finallyThrow"
       ELSE /\ apc' = "concat"
            /\ UNCHANGED <<ffmpegCmd, encoderRuns, created>>
    /\ UNCHANGED <<clipFiles, unlinked>>
    /\ UNCHANGED routeVars
    /\ UNCHANGED flowVars
    /\ UNCHANGED cacheVars

\* AI route lines 68-121 (there are two clips or more): with a fade the merge
\* command runs, and simpleConcatVideos is called when it fails; without one
\* simpleConcatVideos is called at once
AsmMerge ==
    /\ route = "ai" /\ apc = "clips" /\ Len(clipFiles) = Len(frameImages)
    /\ IF hasTransitions(frameImages)
       THEN /\ ffmpegCmd' = MergeCommand(frameImages, clipFiles)
            /\ \E ok, partial \in BOOLEAN :
                  /\ encoderRuns' = Append(encoderRuns, Run("merge", clipFiles, ok))
                  /\ created' = created \cup Written(ok, partial, {VideoPath})
                  /\ apc' = IF ok THEN "finallyReturn" ELSE "concat"
       ELSE /\ apc' = "concat"
            /\ UNCHANGED <<ffmpegCmd, encoderRuns, created>>
    /\ UNCHANGED <<clipFiles, unlinked>>
    /\ UNCHANGED routeVars
    /\ UNCHANGED flowVars
    /\ UNCHANGED cacheVars

\* the concatenation (smart-generate-video lines 66-79, simpleConcatVideos of
\* the AI route lines 135-150): the list file is written, the encoder reads it,
\* the list file is removed
AsmConcat ==
    /\ \/ route = "smart" /\ apc = "clips" /\ Len(clipFiles) = Len(frameImages)
       \/ route = "ai" /\ apc = "concat"
    /\ ffmpegCmd' = ConcatCommand(clipFiles)
    /\ \/ /\ apc' = "finallyThrow"
          /\ UNCHANGED <<encoderRuns, created, unlinked>>
       \/ \E partial \in BOOLEAN :
             /\ encoderRuns' = Append(encoderRuns, Run("concat", clipFiles, FALSE))
             /\ created' = created \cup {ConcatFilePath}
                                   \cup Written(FALSE, partial, {VideoPath})
             /\ apc' = "finallyThrow"
             /\ UNCHANGED unlinked
       \/ /\ encoderRuns' = Append(encoderRuns, Run("concat", clipFiles, TRUE))
          /\ created' = created \cup {ConcatFilePath, VideoPath}
          /\ unlinked' = Append(unlinked, ConcatFilePath)
          /\ apc' = "finallyReturn"
    /\ UNCHANGED clipFiles
    /\ UNCHANGED routeVars
    /\ UNCHANGED flowVars
    /\ UNCHANGED cacheVars

\* the finally block (smart-generate-video lines 80-89, AI route lines
\* 123-132): every recorded clip path is unlinked
AsmFinally ==
    /\ apc \in {"finallyReturn", "finallyThrow"}
    /\ unlinked' = unlinked \o clipFiles
    /\ apc' = IF apc = "finallyReturn" THEN "returned" ELSE "thrown"
    /\ UNCHANGED <<ffmpegCmd, clipFiles, encoderRuns, created>>
    /\ UNCHANGED routeVars
    /\ UNCHANGED flowVars
    /\ UNCHANGED cacheVars

\* createVideoWithTransitions has returned or thrown (smart-generate-video
\* lines 234-242, AI route lines 285-293)
AssembleDone ==
    /\ rpc = "assemble" /\ apc \in {"returned", "thrown"}
    /\ IF apc = "returned"
       THEN rpc' = "persist" /\ UNCHANGED <<response, unlinked>>
       ELSE Return(500, "encodingFailed", 0)
    /\ UNCHANGED <<route, request, token, planFrames, retries, waitTime,
                   batchExports, exportCalls, exportErrors, waits, frameIndex,
                   frameDataMap, frameImages, tempFiles, dirs, encoderRuns, assets>>
    /\ UNCHANGED flowVars
    /\ UNCHANGED cacheVars
    /\ UNCHANGED asmVars

\* framesCount of the success response: sequence.length (import-video line
\* 230), flowPlan.frames.length (smart-generate-video line 299, AI route line 350)
ReportedFramesCount == Len(planFrames)

\* stat, the asset record, the import record of the smart and AI routes, the
\* cleanup and the success response (import-video lines 190-231,
\* smart-generate-video lines 244-308, AI route lines 295-358)
Persist ==
    /\ rpc = "persist"
    /\ \/ /\ Catch("exception")
          /\ UNCHANGED <<assets, dirs>>
       \/ /\ route \in {"smart", "ai"}
          /\ assets' = assets + 1
          /\ Catch("exception")
          /\ UNCHANGED dirs
       \/ /\ assets' = assets + 1
          /\ unlinked' = unlinked \o tempFiles
          /\ dirs' = dirs \ {"temp"}
          /\ response' = Response(200, "none", ReportedFramesCount)
          /\ rpc' = "done"
    /\ UNCHANGED <<route, request, token, planFrames, retries, waitTime,
                   batchExports, exportCalls, exportErrors, waits, frameIndex,
                   frameDataMap, frameImages, tempFiles, encoderRuns>>
    /\ UNCHANGED flowVars
    /\ UNCHANGED cacheVars
    /\ UNCHANGED asmVars

\* AI route lines 156-188: body, URL, description, token, file key
AIValidate ==
    /\ route = "ai" /\ rpc = "start"
    /\ IF ~request.json THEN Catch("exception")
       ELSE IF request.figmaUrl = "missing" THEN Return(400, "urlRequired", 0)
       ELSE IF ~request.description THEN Return(400, "descriptionRequired", 0)
       ELSE IF ~token THEN Return(401, "tokenMissing", 0)
       ELSE IF request.figmaUrl # "figma" THEN Return(400, "invalidUrl", 0)
       ELSE /\ rpc' = "fileData"
            /\ UNCHANGED <<response, unlinked>>
    /\ UNCHANGED <<route, request, token, planFrames, retries, waitTime,
                   batchExports, exportCalls, exportErrors, waits, frameIndex,
                   frameDataMap, frameImages, tempFiles, dirs, encoderRuns, assets>>
    /\ UNCHANGED flowVars
    /\ UNCHANGED cacheVars
    /\ UNCHANGED asmVars

\* AI route lines 190-223: getFileDetails, getFrames, the frames check and
\* generateFlowWithAI, which throws or returns the validated plan
AIPlanFlow ==
    /\ route = "ai" /\ rpc = "fileData"
    /\ \/ /\ Catch("fileDataError")
          /\ UNCHANGED planFrames
       \/ \E fs \in FileFrameLists :
             IF Len(fs) = 0
             THEN Return(400, "noFrames", 0) /\ UNCHANGED planFrames
             ELSE \/ Return(500, "aiFailed", 0) /\ UNCHANGED planFrames
                  \/ \E plan \in RoutePlans :
                        /\ Len(plan) # 0
                        /\ IF Len(ValidatedPlan(fs, plan).frames) = 0
                           THEN Return(400, "noFlow", 0) /\ UNCHANGED planFrames
                           ELSE /\ planFrames' = ValidatedPlan(fs, plan).frames
                                /\ rpc' = "mkdir"
                                /\ UNCHANGED <<response, unlinked>>
    /\ UNCHANGED <<route, request, token, retries, waitTime, batchExports,
                   exportCalls, exportErrors, waits, frameIndex, frameDataMap,
                   frameImages, tempFiles, dirs, encoderRuns, assets>>
    /\ UNCHANGED flowVars
    /\ UNCHANGED cacheVars
    /\ UNCHANGED asmVars

\* AI route lines 233-239: the next batch of at most BATCH_SIZE frames is
\* exported by one exportFrames call; an error is not caught by the loop
AIExportBatch ==
    /\ route = "ai" /\ rpc = "export"
    /\ LET batchStart == batchEnd
           end == Min(batchStart + BATCH_SIZE, Len(planFrames))
           batchIds == IdsOf(SubSeq(planFrames, batchStart + 1, end))
       IN /\ exportCalls' = Append(exportCalls, batchIds)
          /\ \/ \E r \in ExportResults(batchIds) :
                   /\ batchExports' = r
                   /\ frameIndex' = batchStart + 1
                   /\ batchEnd' = end
                   /\ rpc' = "materialize"
                   /\ UNCHANGED <<exportErrors, response, unlinked>>
             \/ \E e \in ExportFailures :
                   /\ exportErrors' = Append(exportErrors, e)
                   /\ Catch("exportError")
                   /\ UNCHANGED <<batchExports, frameIndex, batchEnd>>
    /\ UNCHANGED <<route, request, token, planFrames, retries, waitTime, waits,
                   frameDataMap, frameImages, tempFiles, dirs, encoderRuns, assets>>
    /\ UNCHANGED <<ffmpegCmd, clipFiles, apc, created>>
    /\ UNCHANGED flowVars
    /\ UNCHANGED cacheVars

NextPipeline ==
    \/ ImportValidate \/ SmartValidate \/ SmartGetFileData
    \/ GenerateStart \/ LoopIter \/ LoopExit
    \/ SmartPlanReady \/ AIValidate \/ AIPlanFlow
    \/ MakeTempDir \/ ExportAttempt \/ AIExportBatch
    \/ MaterializeFrame \/ MaterializeDone \/ Encode \/ ExecFFmpeg
    \/ AsmStart \/ AsmClip \/ AsmMerge \/ AsmConcat \/ AsmFinally
    \/ AssembleDone \/ Persist

SpecPipeline == InitPipeline /\ [][NextPipeline]_vars

----------------------------------------------------------------------------
(* The assemblers applied to any list of frame files *)

ClipDurations == {1, 2}
ClipTransitions == {"cut", "fade", "slide", "slow_fade"}

\* frame files as the download loop leaves them: the i-th has path frame_000(i-1)
ClipLists ==
    UNION {{[i \in 1..n |-> [id |-> <<"1", ":", "2">>, path |-> ImportFramePath(i - 1),
                             duration |-> c[i].duration,
                             transition |-> c[i].transition]] :
               c \in [1..n -> [duration : ClipDurations, transition : ClipTransitions]]} :
           n \in 0..MaxClips}

InitAssembler ==
    /\ route \in {"import", "smart", "ai"}
    /\ request = [json |-> FALSE]
    /\ token = FALSE
    /\ rpc = "idle"
    /\ planFrames = <<>>
    /\ retries = 0
    /\ waitTime = 0
    /\ batchExports = <<>>
    /\ exportCalls = <<>>
    /\ exportErrors = <<>>
    /\ waits = <<>>
    /\ frameIndex = 0
    /\ frameDataMap = <<>>
    /\ frameImages \in ClipLists
    /\ tempFiles = <<>>
    /\ unlinked = <<>>
    /\ dirs = {}
    /\ encoderRuns = <<>>
    /\ assets = 0
    /\ response = NoResponse
    /\ batchEnd = 0
    /\ ffmpegCmd = NoCmd
    /\ clipFiles = <<>>
    /\ apc = "start"
    /\ created = {}
    /\ CacheIdle
    /\ call = "none"
    /\ frames = <<>>
    /\ connections = <<>>
    /\ settings = [duration |-> 2, transition |-> "fade"]
    /\ pc = "idle"
    /\ orderedFrames = <<>>
    /\ visitedIds = {}
    /\ currentId = NullId
    /\ visitLog = <<>>
    /\ planned = <<>>
    /\ branch = "none"
    /\ result = NoResult

\* buildFFmpegCommand applied to the frame files
BuildCommand ==
    /\ route = "import" /\ apc = "start"
    /\ ffmpegCmd' = buildFFmpegCommand(frameImages)
    /\ apc' = "returned"
    /\ UNCHANGED <<clipFiles, encoderRuns, created, unlinked>>
    /\ UNCHANGED routeVars
    /\ UNCHANGED flowVars
    /\ UNCHANGED cacheVars

NextAssembler ==
    \/ BuildCommand
    \/ AsmStart \/ AsmClip \/ AsmMerge \/ AsmConcat \/ AsmFinally

SpecAssembler == InitAssembler /\ [][NextAssembler]_vars

----------------------------------------------------------------------------
(* The file-data cache of the figma client under concurrent callers. The     *)
(* routes above take getFileData's result as it comes, cached or fetched.    *)

InitCache ==
    /\ CacheIdle
    /\ PipelineIdle
    /\ call = "none"
    /\ frames = <<>>
    /\ connections = <<>>
    /\ settings = [duration |-> 2, transition |-> "fade"]
    /\ pc = "idle"
    /\ orderedFrames = <<>>
    /\ visitedIds = {}
    /\ currentId = NullId
    /\ visitLog = <<>>
    /\ planned = <<>>
    /\ branch = "none"
    /\ result = NoResult

\* seeded fault: an entry is served whatever its age
IsFreshAnyAge(cached, t) == cached # NoEntry

\* cached && Date.now() - cached.timestamp < CACHE_TTL
IsFresh(cached, t) == cached # NoEntry /\ t - cached.timestamp < CACHE_TTL

\* time passes between two events of the event loop
Tick ==
    /\ now < MaxTicks * TickMs
    /\ now' = now + TickMs
    /\ UNCHANGED <<fileCache, callers>>
    /\ UNCHANGED flowVars
    /\ UNCHANGED pipeVars
    /\ UNCHANGED asmVars

\* getFileData up to its first await (figma client lines 84-125): the cache
\* check, then the cached data is returned or the request is sent
GetFileDataCall(c) ==
    /\ callers[c].pc # "fetching"
    /\ \E k \in FileKeys, u \in BOOLEAN :
          callers' = [callers EXCEPT ![c] =
              IF u /\ IsFresh(fileCache[k], now)
              THEN [pc |-> "hit", fileKey |-> k, useCache |-> u,
                    ret |-> fileCache[k].data]
              ELSE [pc |-> "fetching", fileKey |-> k, useCache |-> u,
                    ret |-> NoData]]
    /\ UNCHANGED <<fileCache, now>>
    /\ UNCHANGED flowVars
    /\ UNCHANGED pipeVars
    /\ UNCHANGED asmVars

\* figmaFetch throws (figma client lines 71-74), or the response has no
\* document to walk: getFileData throws before fileCache.set
FetchThrows(c) ==
    /\ callers[c].pc = "fetching"
    /\ callers' = [callers EXCEPT ![c].pc = "threw"]
    /\ UNCHANGED <<fileCache, now>>
    /\ UNCHANGED flowVars
    /\ UNCHANGED pipeVars
    /\ UNCHANGED asmVars

\* the response arrives (figma client lines 125-199): the file data is taken
\* out of it, stored with the time and returned, in one turn of the event loop
FetchReturns(c) ==
    /\ callers[c].pc = "fetching"
    /\ \E v \in 1..MaxVersions :
          LET fileData == FileDataOf(ApiResponse(callers[c].fileKey, v))
          IN /\ fileCache' = [fileCache EXCEPT ![callers[c].fileKey] =
                                 [data |-> fileData, timestamp |-> now]]
             /\ callers' = [callers EXCEPT ![c].pc = "fetched", ![c].ret = fileData]
    /\ UNCHANGED now
    /\ UNCHANGED flowVars
    /\ UNCHANGED pipeVars
    /\ UNCHANGED asmVars

NextCache ==
    \/ Tick
    \/ \E c \in Callers : GetFileDataCall(c)
    \/ \E c \in Callers : FetchThrows(c)
    \/ \E c \in Callers : FetchReturns(c)

SpecCache == InitCache /\ [][NextCache]_vars

----------------------------------------------------------------------------
(* Properties of the planners *)

Known(id) == \E i \in 1..Len(frames) : frames[i].id = id

NoDuplicates(s) == \A i, j \in 1..Len(s) : i # j => s[i] # s[j]

\* every node id a connection mentions
NodeIds(cs) ==
    {cs[i].sourceNodeId : i \in 1..Len(cs)} \cup
    ({cs[i].destinationNodeId : i \in 1..Len(cs)} \ {NullId})

\* the injective id sequences of two or more nodes
Paths ==
    {p \in SeqsUpTo(Ids, Cardinality(Ids)) : Len(p) >= 2 /\ NoDuplicates(p)}

\* cs lists, once each and in any order, exactly the edges of the path p
IsChainOf(cs, p) ==
    /\ Len(cs) = Len(p) - 1
    /\ {<<cs[i].sourceNodeId, cs[i].destinationNodeId>> : i \in 1..Len(cs)}
         = {<<p[i], p[i + 1]>> : i \in 1..(Len(p) - 1)}
    /\ \A i \in 1..Len(p) : Known(p[i])

CarriesSettings(fs) ==
    \A i \in 1..Len(fs) :
        fs[i].duration = settings.duration /\ fs[i].transition = settings.transition

\* C1: with an empty connection list generateFlowFromPrototype returns the input
\* frames (ids and names) in input order, each with the settings' duration and
\* transition, whatever the frame list.
C1_EmptyConnectionsIdentity ==
    (call = "prototype" /\ pc = "done" /\ connections = <<>>) =>
        /\ Len(result.frames) = Len(frames)
        /\ \A i \in 1..Len(frames) :
              result.frames[i] = [id |-> frames[i].id, name |-> frames[i].name,
                                  duration |-> settings.duration,
                                  transition |-> settings.transition]

C1_Witness ==
    /\ call = "prototype" /\ pc = "done" /\ connections = <<>>
    /\ Len(frames) = 3 /\ frames[1].id = frames[3].id /\ frames[1].id # frames[2].id
    /\ Len(result.frames) = 3

\* C2: when the connections are exactly the edges of one acyclic chain over known
\* frames, in any listing order, the plan is the chain in chain order, starting
\* at the only node without an incoming connection.
C2_LinearChainOrder ==
    (call = "prototype" /\ pc = "done") =>
        \A p \in Paths :
            IsChainOf(connections, p) =>
                /\ IdsOf(result.frames) = p
                /\ CarriesSettings(result.frames)
                /\ {n \in NodeIds(connections) : n \notin DestIds(connections)} = {p[1]}
                /\ visitLog[1] = p[1]

C2_Witness ==
    /\ call = "prototype" /\ pc = "done"
    /\ Len(connections) = 2
    /\ \E p \in Paths :
          /\ Len(p) = 3 /\ IsChainOf(connections, p)
          /\ connections[1].sourceNodeId = p[2]
          /\ IdsOf(result.frames) = p

\* C3: the traversal loop ends: no node id is visited twice, no frame id is
\* appended twice, the number of iterations never exceeds the number of distinct
\* node ids of the connection list, and the function is never stuck before its
\* return.
C3_TraversalBounded ==
    (call = "prototype") =>
        /\ NoDuplicates(visitLog)
        /\ NoDuplicates(IdsOf(orderedFrames))
        /\ Len(visitLog) <= Cardinality(NodeIds(connections))
        /\ Len(orderedFrames) <= Len(visitLog)
        /\ (pc = "done" \/ ENABLED NextFlow)

C3_Witness ==
    /\ call = "prototype" /\ pc = "done"
    /\ Len(connections) = 2
    /\ connections[1].destinationNodeId = connections[2].sourceNodeId
    /\ connections[2].destinationNodeId = connections[1].sourceNodeId
    /\ connections[1].sourceNodeId # connections[2].sourceNodeId
    /\ Len(visitLog) = 2
    /\ branch = "traversal"
    /\ Len(result.frames) = 2

\* the first position, after the start, at which the traversal stands on an id
\* that is not a known frame while everything before it was known
FirstUnknownAt(k) ==
    /\ k \in 2..Len(visitLog)
    /\ ~Known(visitLog[k])
    /\ \A j \in 1..(k - 1) : Known(visitLog[j])

HasOutgoing(id) == \E i \in 1..Len(connections) : connections[i].sourceNodeId = id

\* C4 as stated: an unknown destination is a dead end, the plan is exactly the
\* frames collected before it, also when the unknown id has connections of its own.
C4_UnknownDestinationIsDeadEnd ==
    (call = "prototype" /\ pc = "done") =>
        \A k \in 1..Len(visitLog) :
            FirstUnknownAt(k) => IdsOf(result.frames) = SubSeq(visitLog, 1, k - 1)

\* C4 amended: an unknown destination adds no frame and raises no error; the
\* traversal stops on it exactly when it has no connection of its own or the
\* first connection listed for it leads to null or to a visited id; otherwise
\* the traversal goes on along that first connection. The plan holds the known
\* frames visited before and after it, in visit order (the all-frames fallback
\* if no visited id was known).
C4_UnknownDestinationSkipped ==
    (call = "prototype" /\ pc = "done") =>
        \A k \in 2..Len(visitLog) :
            ~Known(visitLog[k]) =>
                /\ Len(orderedFrames) <= Len(visitLog) - 1
                /\ IdsOf(result.frames) =
                       (IF SelectSeq(visitLog, Known) = <<>> THEN IdsOf(frames)
                        ELSE SelectSeq(visitLog, Known))
                /\ ~HasOutgoing(visitLog[k]) =>
                       /\ Len(visitLog) = k
                       /\ SelectSeq(visitLog, Known) = SelectSeq(SubSeq(visitLog, 1, k - 1), Known)
                /\ HasOutgoing(visitLog[k]) =>
                       LET first == CHOOSE i \in 1..Len(connections) :
                                       /\ connections[i].sourceNodeId = visitLog[k]
                                       /\ \A j \in 1..(i - 1) :
                                             connections[j].sourceNodeId # visitLog[k]
                           d == connections[first].destinationNodeId
                       IN IF d = NullId \/ d \in {visitLog[j] : j \in 1..k}
                          THEN Len(visitLog) = k
                          ELSE Len(visitLog) > k /\ visitLog[k + 1] = d

C4_Witness ==
    /\ call = "prototype" /\ pc = "done"
    /\ FirstUnknownAt(2)
    /\ HasOutgoing(visitLog[2])
    /\ Len(visitLog) = 3
    /\ Len(result.frames) = 2

\* C5: generateFlowFromPrototype never fails; it returns the all-frames plan in
\* input order exactly when the connection list is empty or the traversal
\* collected no frame, and the traversal order whenever at least one frame was
\* collected.
C5_FallbackExactlyWhenEmpty ==
    (call = "prototype") =>
        /\ pc \in {"start", "loop", "done"}
        /\ pc = "done" =>
              LET collected == SelectSeq(visitLog, Known)
                  degraded == connections = <<>> \/ Len(collected) = 0
              IN /\ (branch \in {"empty", "fallback"}) <=> degraded
                 /\ branch \in {"empty", "fallback", "traversal"}
                 /\ degraded =>
                       /\ IdsOf(result.frames) = IdsOf(frames)
                       /\ [i \in 1..Len(frames) |-> result.frames[i].name]
                            = [i \in 1..Len(frames) |-> frames[i].name]
                 /\ ~degraded => IdsOf(result.frames) = collected
                 /\ CarriesSettings(result.frames)

C5_Witness ==
    /\ call = "prototype" /\ pc = "done"
    /\ branch = "traversal"
    /\ Len(frames) = 3 /\ NoDuplicates(IdsOf(frames))
    /\ Len(result.frames) = 1

\* the connections whose source has no incoming connection
EntryIndexes(cs) ==
    {i \in 1..Len(cs) :
        \A j \in 1..Len(cs) : cs[j].destinationNodeId # cs[i].sourceNodeId}

ExpectedStart(cs) ==
    IF EntryIndexes(cs) # {}
    THEN cs[CHOOSE i \in EntryIndexes(cs) : \A j \in EntryIndexes(cs) : i <= j].sourceNodeId
    ELSE cs[1].sourceNodeId

\* C6: with a non-empty connection list the traversal starts at the first entry
\* point in connection-list order and visits no other entry point; without an
\* entry point it starts at the source of the first connection.
C6_StartsAtFirstEntryPoint ==
    (call = "prototype" /\ pc \in {"loop", "done"} /\ connections # <<>>) =>
        /\ (visitLog = <<>>) => (pc = "loop" /\ currentId = ExpectedStart(connections))
        /\ (visitLog # <<>>) => visitLog[1] = ExpectedStart(connections)
        /\ \A i \in EntryIndexes(connections) :
              connections[i].sourceNodeId # ExpectedStart(connections)
                  => connections[i].sourceNodeId \notin Range(visitLog)

C6_Witness ==
    /\ call = "prototype" /\ pc = "done"
    /\ Cardinality({connections[i].sourceNodeId : i \in EntryIndexes(connections)}) = 2
    /\ visitLog[1] = connections[1].sourceNodeId
    /\ connections[2].sourceNodeId \notin Range(visitLog)
    /\ Known(connections[2].sourceNodeId)
    /\ branch = "traversal"

\* C7: every returned plan, of generateFlowFromPrototype, of both
\* generateSimpleFlow and of generateFlowWithAI, has totalDuration equal to the
\* sum of its frames' durations.
C7_TotalDurationIsSum ==
    (pc = "done") => result.totalDuration = SumDurations(result.frames)

C7_Witness ==
    /\ call = "ai" /\ pc = "done" /\ branch = "aiValidated"
    /\ Len(planned) = 2 /\ Len(result.frames) = 1
    /\ planned[1].duration # planned[2].duration

\* the positions of the planner's answer whose id was offered
OfferedPositions == {i \in 1..Len(planned) : Known(planned[i].id)}

NthOffered(k) ==
    CHOOSE i \in OfferedPositions :
        Cardinality({j \in OfferedPositions : j < i}) = k - 1

\* C22: for every non-empty planner answer generateFlowWithAI returns instead
\* of throwing; the plan holds exactly the planner's frames whose id is the id
\* of an offered frame, unchanged and in the planner's order; when no returned
\* id was offered, the plan is every offered frame in input order with
\* duration 2 and transition fade.
C22_AIPlanValidated ==
    (call = "ai" /\ planned # <<>>) =>
        /\ pc = "done"
        /\ IF OfferedPositions = {}
           THEN result.frames =
                    [i \in 1..Len(frames) |->
                        [id |-> frames[i].id, name |-> frames[i].name,
                         duration |-> 2, transition |-> "fade"]]
           ELSE /\ Len(result.frames) = Cardinality(OfferedPositions)
                /\ \A k \in 1..Len(result.frames) :
                      result.frames[k] = planned[NthOffered(k)]

C22_Witness ==
    /\ call = "ai" /\ pc = "done"
    /\ Len(planned) = 2
    /\ ~Known(planned[1].id)
    /\ Known(planned[2].id)
    /\ Len(frames) >= 2

\* the destination of the first connection listed for the node, or NullId
FirstListedDestination(id) ==
    LET from == {i \in 1..Len(connections) : connections[i].sourceNodeId = id}
    IN IF from = {} THEN NullId
       ELSE connections[CHOOSE i \in from : \A j \in from : i <= j].destinationNodeId

\* the nodes met from the node id on, along the first listed connections, up
\* to a null destination or a node already met
RECURSIVE PathFrom(_, _)
PathFrom(id, met) ==
    IF id = NullId \/ id \in Range(met) THEN met
    ELSE PathFrom(FirstListedDestination(id), Append(met, id))

PrototypePath == PathFrom(ExpectedStart(connections), <<>>)

\* C28 as stated: the ids of a traversal plan are the whole path from the
\* start node along the first listed connections.
C28_PlanIsWholePath ==
    (call = "prototype" /\ pc = "done" /\ branch = "traversal") =>
        /\ NoDuplicates(IdsOf(result.frames))
        /\ \A i \in 1..Len(result.frames) : Known(result.frames[i].id)
        /\ IdsOf(result.frames) = PrototypePath
        /\ \A i \in 1..Len(frames) :
              frames[i].id \notin Range(PrototypePath) =>
                  frames[i].id \notin Range(IdsOf(result.frames))

\* C28 amended: the ids of a traversal plan are pairwise distinct ids of input
\* frames: in path order, those nodes of the path from the start node along the
\* first listed connections that are ids of input frames; a node of the path
\* that is no input frame is passed through and left out, and an input frame
\* that is not on the path is left out.
C28_PlanIsKnownPartOfPath ==
    (call = "prototype" /\ pc = "done" /\ branch = "traversal") =>
        /\ NoDuplicates(IdsOf(result.frames))
        /\ \A i \in 1..Len(result.frames) : Known(result.frames[i].id)
        /\ IdsOf(result.frames) = SelectSeq(PrototypePath, Known)
        /\ \A i \in 1..Len(frames) :
              frames[i].id \notin Range(PrototypePath) =>
                  frames[i].id \notin Range(IdsOf(result.frames))

\* frames 1, 2 and 3 with the only connection 1 -> 2 : frame 3 is left out
C28_Witness ==
    /\ call = "prototype" /\ pc = "done" /\ branch = "traversal"
    /\ Len(frames) = 3 /\ NoDuplicates(IdsOf(frames))
    /\ Len(connections) = 1
    /\ PrototypePath = <<frames[1].id, frames[2].id>>
    /\ IdsOf(result.frames) = <<frames[1].id, frames[2].id>>

----------------------------------------------------------------------------
(* Properties of the video routes *)

\* every exportFrames call of the run failed with HTTP status 429
AlwaysRateLimited ==
    /\ exportCalls # <<>>
    /\ Len(exportErrors) = Len(exportCalls)
    /\ \A k \in 1..Len(exportErrors) : exportErrors[k].status = 429

RateLimitFailures ==
    Cardinality({k \in 1..Len(exportErrors) :
                    exportErrors[k].has429 \/ exportErrors[k].hasRateLimit})

\* C8: every export attempt of the import-video and smart-generate-video routes
\* (the routes with the retry loop)
\* is one exportFrames call carrying all plan frame ids in plan order; a run
\* makes at most 3 calls, and when every call is rate limited it makes exactly 3
\* and ends with the rate-limit failure.
C8_OneBatchCallPerAttempt ==
    route \in {"import", "smart"} =>
    /\ \A k \in 1..Len(exportCalls) :
          /\ Len(exportCalls[k]) = Len(planFrames)
          /\ \A i \in 1..Len(planFrames) : exportCalls[k][i] = planFrames[i].id
    /\ Len(exportCalls) <= 3
    /\ Len(exportCalls) - Len(exportErrors) \in {0, 1}
    /\ (Len(exportCalls) - Len(exportErrors) = 1) <=> (batchExports # <<>> \/ frameIndex > 0)
    /\ (rpc = "done" /\ AlwaysRateLimited) =>
          /\ Len(exportCalls) = 3
          /\ response.error = "rateLimitExceeded"
          /\ assets = 0 /\ encoderRuns = <<>>

C8_Witness ==
    /\ route \in {"import", "smart"}
    /\ rpc = "done" /\ AlwaysRateLimited
    /\ Len(exportCalls) = 3
    /\ Len(planFrames) = 2 /\ planFrames[1].id # planFrames[2].id
    /\ exportCalls[3] = <<planFrames[1].id, planFrames[2].id>>
    /\ response.error = "rateLimitExceeded"

\* C9: the waits of the retry loop (import-video, smart-generate-video) are
\* 15 s, then twice the previous wait, never more than 60 s and never
\* decreasing; one wait follows each rate-limited
\* attempt except the third, after which the loop throws without waiting.
C9_BackoffSchedule ==
    route \in {"import", "smart"} =>
    /\ Len(waits) <= 2
    /\ Len(waits) >= 1 => waits[1] = 15000
    /\ \A k \in 1..(Len(waits) - 1) :
          /\ waits[k + 1] = 2 * waits[k]
          /\ waits[k] <= waits[k + 1]
    /\ \A k \in 1..Len(waits) : waits[k] <= 60000
    /\ Len(waits) = (IF RateLimitFailures <= 2 THEN RateLimitFailures ELSE 2)
    /\ RateLimitFailures <= 3
    /\ RateLimitFailures = 3 => (rpc = "done" /\ response.error = "rateLimitExceeded")

C9_Witness ==
    /\ route \in {"import", "smart"}
    /\ rpc = "done"
    /\ RateLimitFailures = 3
    /\ waits = <<15000, 30000>>

\* C10: a run whose export retries were exhausted by rate limiting answers with
\* HTTP status 429, unlike the 500 of an unexpected failure.
C10_RateLimitedStatus429 ==
    (rpc = "done" /\ AlwaysRateLimited /\ Len(exportCalls) = 3) =>
        response.status = 429

\* the export result the run ended with has an image URL for the id
Exported(id) ==
    \E i \in 1..Len(batchExports) :
        batchExports[i].nodeId = id /\ batchExports[i].imageUrl # NoUrl

\* the download loop has run to its end and the list for the assembler is built
ListHandedOver ==
    /\ Len(planFrames) > 0
    /\ frameIndex > Len(planFrames)
    /\ rpc # "materialize"

ExpectedFrameFiles == SelectSeq(planFrames, LAMBDA f : Exported(f.id))

\* C11: in the import-video and smart-generate-video routes the list handed to
\* the assembler holds exactly the plan entries whose id has an export result
\* with an image URL, in plan order, whatever the order of the export result;
\* entries without one are left out and the run goes on to the encoder.
C11_MaterializedInPlanOrder ==
    (route \in {"import", "smart"} /\ ListHandedOver) =>
        /\ Len(frameImages) = Len(ExpectedFrameFiles)
        /\ \A i \in 1..Len(frameImages) :
              /\ frameImages[i].id = ExpectedFrameFiles[i].id
              /\ frameImages[i].duration = ExpectedFrameFiles[i].duration
              /\ frameImages[i].transition = ExpectedFrameFiles[i].transition
        /\ ExpectedFrameFiles # <<>> => response.error # "noFramesExported"
        /\ (ExpectedFrameFiles # <<>> /\ rpc = "done") => encoderRuns # <<>> \/ response.error = "exception"

C11_Witness ==
    /\ route = "import" /\ rpc = "exec"
    /\ Len(planFrames) = 2
    /\ Len(batchExports) = 2
    /\ batchExports[1].nodeId = planFrames[2].id
    /\ batchExports[2].nodeId = planFrames[1].id
    /\ batchExports[2].imageUrl = NoUrl
    /\ Len(frameImages) = 1
    /\ frameImages[1].id = planFrames[2].id

\* C12: a successful run reports as framesCount the number of frames that were
\* materialized and rendered, not the number of frames of the sequence or plan.
C12_FramesCountIsMaterialized ==
    (rpc = "done" /\ response.status = 200) =>
        response.framesCount = Len(frameImages)

\* C13: a run of any of the three routes whose download loop ends without a
\* single frame file ends there with the failure response "no frames could be
\* exported": no encoder command is built or invoked, createVideoWithTransitions
\* is not called and no asset record is created.
C13_ZeroMaterializedFails ==
    (ListHandedOver /\ tempFiles = <<>>) =>
        /\ rpc = "done"
        /\ response.status = 500
        /\ response.error = "noFramesExported"
        /\ encoderRuns = <<>>
        /\ ffmpegCmd = NoCmd
        /\ apc = "idle"
        /\ assets = 0
        /\ "uploads" \notin dirs

C13_Witness ==
    /\ route = "smart" /\ rpc = "done"
    /\ Len(planFrames) = 2
    /\ ListHandedOver /\ tempFiles = <<>>
    /\ Len(batchExports) = 1 /\ batchExports[1].imageUrl = NoUrl
    /\ response.error = "noFramesExported"

----------------------------------------------------------------------------
(* Properties of the assemblers *)

AllCuts(fs) == \A i \in 1..Len(fs) : fs[i].transition = "cut"

OpsOf(cmd) == {cmd.filters[k].op : k \in 1..Len(cmd.filters)}

\* C14: buildFFmpegCommand returns the simple concatenation command exactly when
\* every entry's transition is 'cut', and the complex filter-graph command as
\* soon as one entry, the last included, has another transition.
C14_SimpleIffAllCuts ==
    (route = "import" /\ apc = "returned") =>
        /\ ffmpegCmd.kind \in {"simple", "complex"}
        /\ ffmpegCmd.kind = "simple" <=> AllCuts(frameImages)
        /\ ffmpegCmd.kind = "complex" <=> ~AllCuts(frameImages)
        /\ ffmpegCmd.kind = "simple" =>
              /\ OpsOf(ffmpegCmd) \subseteq {"scale", "concat"}
              /\ ffmpegCmd.filters[Len(ffmpegCmd.filters)].op = "concat"
              /\ Len(ffmpegCmd.filters[Len(ffmpegCmd.filters)].ins) = Len(frameImages)
        /\ ffmpegCmd.kind = "complex" => "scaleFps" \in OpsOf(ffmpegCmd)

C14_Witness ==
    /\ route = "import" /\ apc = "returned"
    /\ Len(frameImages) = 3
    /\ frameImages[1].transition = "cut"
    /\ frameImages[2].transition = "cut"
    /\ frameImages[3].transition = "fade"
    /\ ffmpegCmd.kind = "complex"

\* the filter that joins clip j and clip j + 1 (counted from 1) in the complex
\* command: it follows the scale filters, one per clip
JoinPart(cmd, j) == cmd.filters[Len(frameImages) + j]

\* C15: in the complex command, the join of two adjacent clips whose first has a
\* non-cut transition is an xfade of 0.5 s that starts at the sum of the nominal
\* durations of all clips up to the first of the two, minus 0.5 s, whatever the
\* earlier joins were; a join after a cut is a concat.
C15_XfadeOffsetIsNominalSum ==
    (route = "import" /\ apc = "returned" /\ ffmpegCmd.kind = "complex") =>
        /\ Len(ffmpegCmd.filters) >= 2 * Len(frameImages) - 1
        /\ \A j \in 1..(Len(frameImages) - 1) :
              IF frameImages[j].transition = "cut"
              THEN JoinPart(ffmpegCmd, j).op = "concat"
              ELSE /\ JoinPart(ffmpegCmd, j).op = "xfade"
                   /\ JoinPart(ffmpegCmd, j).duration = 500
                   /\ JoinPart(ffmpegCmd, j).offset =
                         1000 * SumDurations(SubSeq(frameImages, 1, j)) - 500

C15_Witness ==
    /\ route = "import" /\ apc = "returned" /\ ffmpegCmd.kind = "complex"
    /\ Len(frameImages) = 3
    /\ frameImages[1].transition = "fade" /\ frameImages[1].duration = 1
    /\ frameImages[2].transition = "slide" /\ frameImages[2].duration = 2
    /\ JoinPart(ffmpegCmd, 1).offset = 500
    /\ JoinPart(ffmpegCmd, 2).offset = 2500

\* C16: in the merge command of the per-clip assembler, the xfade that joins
\* clip j and clip j + 1 after a fade or slow_fade starts at the cumulative
\* duration of the clips up to clip j minus the transition's duration, for
\* three clips and more as for two.
C16_MergeOffsetIsCumulative ==
    (route = "ai" /\ ffmpegCmd.kind = "merge") =>
        \A j \in 1..(Len(frameImages) - 1) :
            frameImages[j].transition \in {"fade", "slow_fade"} =>
                /\ ffmpegCmd.filters[j].op = "xfade"
                /\ ffmpegCmd.filters[j].offset =
                      1000 * SumDurations(SubSeq(frameImages, 1, j))
                          - ffmpegCmd.filters[j].duration

\* the position in encoderRuns of the failed merge (cross-fade) invocation, or 0
FailedMerge ==
    IF \E k \in 1..Len(encoderRuns) :
          encoderRuns[k].kind = "merge" /\ ~encoderRuns[k].ok
    THEN CHOOSE k \in 1..Len(encoderRuns) :
            encoderRuns[k].kind = "merge" /\ ~encoderRuns[k].ok
    ELSE 0

\* C17: in the per-clip assembler of the AI route, when the cross-fade (merge)
\* invocation has failed, the plain concatenation of the same clips in the same
\* order is attempted before the assembler throws; it returns with a video when
\* the concatenation succeeds and throws only when the concatenation fails (its
\* list file cannot be written or its encoder invocation fails).
C17_ConcatFallbackAfterMergeFailure ==
    (route = "ai" /\ FailedMerge # 0) =>
        /\ FailedMerge = Len(clipFiles) + 1
        /\ encoderRuns[FailedMerge].inputs = clipFiles
        /\ apc \in {"concat", "finallyReturn", "finallyThrow", "returned", "thrown"}
        /\ apc # "concat" =>
              /\ ffmpegCmd = ConcatCommand(clipFiles)
              /\ ffmpegCmd.inputs = [i \in 1..Len(frameImages) |->
                                        [t |-> 0, path |-> ClipPath(i - 1)]]
              /\ Len(encoderRuns) = FailedMerge + 1 =>
                    /\ encoderRuns[FailedMerge + 1].kind = "concat"
                    /\ encoderRuns[FailedMerge + 1].inputs = clipFiles
              /\ apc \in {"finallyReturn", "returned"} <=>
                    /\ Len(encoderRuns) = FailedMerge + 1
                    /\ encoderRuns[FailedMerge + 1].ok
              /\ apc \in {"finallyReturn", "returned"} => VideoPath \in created
              /\ Len(encoderRuns) <= FailedMerge + 1

C17_Witness ==
    /\ route = "ai" /\ apc = "returned"
    /\ Len(frameImages) = 3
    /\ FailedMerge = 4
    /\ encoderRuns[5] = Run("concat", <<ClipPath(0), ClipPath(1), ClipPath(2)>>, TRUE)

----------------------------------------------------------------------------
(* Properties of the routes' cleanup and validation *)

\* C18: when a run that wrote at least one temporary frame file has answered,
\* on whatever exit path, unlink has been called on every path of tempFiles.
C18_TempFilesUnlinkedOnEveryExit ==
    (rpc = "done" /\ tempFiles # <<>>) =>
        \A k \in 1..Len(tempFiles) : tempFiles[k] \in Range(unlinked)

\* C19: when a run ends because an encoder invocation failed, it answers with
\* the encoding failure, and unlink has been called on every clip file, on the
\* concat list file and on the partial output video that the assembly wrote.
C19_EncoderFailureCleansUp ==
    (rpc = "done" /\ encoderRuns # <<>> /\ ~encoderRuns[Len(encoderRuns)].ok) =>
        /\ response.status = 500
        /\ response.error = "encodingFailed"
        /\ \A f \in created : f \in Range(unlinked)

\* C20: no exportFrames call, no temp directory and no encoder invocation
\* happens for a resolved plan or sequence of fewer than 2 frames.
C20_ShortPlanRejectedBeforeExport ==
    (exportCalls # <<>> \/ "temp" \in dirs \/ encoderRuns # <<>>) =>
        Len(planFrames) >= 2

----------------------------------------------------------------------------
(* Properties of the routes' validation, materializer and asset record *)

\* nothing of the frame source has been asked for and nothing was put on disk:
\* no exportFrames call, no wait of a retry, no temp directory, no temp file
\* (getFileData is called on leaving rpc = "fileData", which a validation
\* answer never reaches)
NothingStarted ==
    /\ exportCalls = <<>>
    /\ exportErrors = <<>>
    /\ waits = <<>>
    /\ dirs = {}
    /\ tempFiles = <<>>
    /\ frames = <<>>

\* C21: in every run of a video route whose body could be read, a missing
\* source URL is answered with 400, a missing credential with 401 (or with the
\* 400 of a body check that comes before it) and a source URL that
\* parseFileKeyFromUrl does not match with 400 (or with that 401), each before
\* any call of the frame source, without a retry and without a temp file.
C21_ValidationBeforeFrameSource ==
    (rpc = "done" /\ request.json) =>
        /\ request.figmaUrl = "missing" =>
              response.status = 400 /\ NothingStarted
        /\ ~token =>
              response.status \in {400, 401} /\ NothingStarted
        /\ request.figmaUrl = "unparsable" =>
              response.status \in {400, 401} /\ NothingStarted

\* the file data one response for the key k gives, whole
WholeFileData(k) == {FileDataOf(r) : r \in {a \in ApiResponses : a.name = k}}

\* every entry and every returned value is a whole {details, frames,
\* connections} value of one response for its key
EntriesWhole ==
    /\ \A k \in FileKeys :
          \/ fileCache[k] = NoEntry
          \/ /\ fileCache[k].data \in WholeFileData(k)
             /\ fileCache[k].timestamp \in 0..now
    /\ \A c \in Callers :
          callers[c].pc \in {"hit", "fetched"} =>
              callers[c].ret \in WholeFileData(callers[c].fileKey)

\* what one step of the caller c does to the cache
CacheStepOf(c) ==
    LET k == callers'[c].fileKey
        cached == fileCache[k]
        young == cached # NoEntry /\ now - cached.timestamp < 300000
    IN /\ (callers[c].pc # "fetching" /\ callers'[c] # callers[c]) =>
             /\ fileCache' = fileCache
             /\ IF callers'[c].useCache /\ young
                THEN callers'[c].pc = "hit" /\ callers'[c].ret = cached.data
                ELSE callers'[c].pc = "fetching"
       /\ (callers[c].pc = "fetching" /\ callers'[c].pc = "threw") =>
             fileCache' = fileCache
       /\ (callers[c].pc = "fetching" /\ callers'[c].pc = "fetched") =>
             /\ fileCache'[k] = [data |-> callers'[c].ret, timestamp |-> now]
             /\ \A other \in FileKeys \ {k} : fileCache'[other] = fileCache[other]
       /\ (callers[c].pc = "fetching") => callers'[c].pc # "hit"

\* C23: getFileData with caching enabled returns the entry of its file key
\* without sending a request when that entry is younger than 5 minutes;
\* otherwise it sends the request and, when the response has arrived, replaces
\* the entry by one whole {details, frames, connections} value with the current
\* time; under every interleaving of concurrent callers no entry and no
\* returned value is partly written, and a failed request leaves the cache as
\* it was.
C23_CacheReadThroughWholeEntry ==
    /\ []EntriesWhole
    /\ [][\A c \in Callers : CacheStepOf(c)]_vars

\* a caller was served from the cache, and later another one, with caching
\* enabled, found the same entry too old and has its request in flight
C23_Witness ==
    \E c, d \in Callers :
        /\ c # d
        /\ callers[c].pc = "hit"
        /\ callers[d].pc = "fetching" /\ callers[d].useCache
        /\ callers[d].fileKey = callers[c].fileKey
        /\ fileCache[callers[c].fileKey].data = callers[c].ret
        /\ now - fileCache[callers[c].fileKey].timestamp >= 300000

\* C24: in all three routes the list handed to the assembler holds one entry
\* per plan entry whose id was exported with an image URL, in plan order, each
\* with the id, duration and transition of its own plan entry, also when an id
\* occurs twice in the plan or two ids differ only in non-alphanumeric
\* characters.
C24_OneEntryPerExportedPlanEntry ==
    ListHandedOver =>
        /\ Len(frameImages) = Len(ExpectedFrameFiles)
        /\ \A i \in 1..Len(frameImages) :
              /\ frameImages[i].id = ExpectedFrameFiles[i].id
              /\ frameImages[i].duration = ExpectedFrameFiles[i].duration
              /\ frameImages[i].transition = ExpectedFrameFiles[i].transition

\* C25: in the command of buildComplexFFmpegCommand the input of clip i is
\* held for its nominal duration plus 0.5 s exactly when clip i is not the last
\* clip and its transition is not 'cut', and for its nominal duration in every
\* other case (a cut, or the last clip whatever its transition).
C25_InputDurationExtendedBeforeTransition ==
    (ffmpegCmd.kind = "complex") =>
        /\ Len(ffmpegCmd.inputs) = Len(frameImages)
        /\ \A i \in 1..Len(frameImages) :
              LET nominal == frameImages[i].duration * 1000
                  t == ffmpegCmd.inputs[i].t
              IN IF i # Len(frameImages) /\ frameImages[i].transition # "cut"
                 THEN t = nominal + 500
                 ELSE t = nominal

C25_Witness ==
    /\ ffmpegCmd.kind = "complex"
    /\ Len(frameImages) = 3
    /\ frameImages[1].transition = "slide"
    /\ frameImages[2].transition = "cut"
    /\ frameImages[3].transition = "fade"
    /\ ffmpegCmd.inputs[1].t = frameImages[1].duration * 1000 + 500
    /\ ffmpegCmd.inputs[3].t = frameImages[3].duration * 1000

\* C26: in the routes with the retry loop, an exportFrames failure that is not
\* the frame source's rate-limit signal (HTTP status 429) is the run's last
\* call: no call and no backoff wait follows it, and the run ends with an
\* error response after the catch block's cleanup.
C26_OtherFailureNotRetried ==
    (route \in {"import", "smart"}) =>
        \A k \in 1..Len(exportErrors) :
            exportErrors[k].status # 429 =>
                /\ k = Len(exportErrors)
                /\ Len(exportCalls) = k
                /\ Len(waits) = k - 1
                /\ rpc = "done"
                /\ response.status = 500
                /\ response.error = "exportError"

\* C27: in the AI route a sub-batch export that fails with the rate-limit
\* signal is called again, whole, after a backoff wait (15 s, then 30 s), and
\* the failure is surfaced only when the third call of that sub-batch has
\* failed as well.
C27_AIBatchRetriedOnRateLimit ==
    (/\ route = "ai" /\ rpc = "done"
     /\ exportErrors # <<>>
     /\ \A k \in 1..Len(exportErrors) : exportErrors[k].status = 429) =>
        LET n == Len(exportCalls)
        IN /\ Len(exportErrors) = InitialRetries
           /\ n >= InitialRetries
           /\ exportCalls[n - 1] = exportCalls[n]
           /\ exportCalls[n - 2] = exportCalls[n]
           /\ \E i \in 1..Len(waits) :
                 /\ i < Len(waits)
                 /\ waits[i] = InitialWaitMs
                 /\ waits[i + 1] = NextWaitTime(InitialWaitMs)

\* the filters of the command that read the stream, with the reading position
ConsumersOf(cmd, label) ==
    {<<j, k>> \in (1..Len(cmd.filters)) \X (1..2) :
        k <= Len(cmd.filters[j].ins) /\ cmd.filters[j].ins[k] = label}

ProducersOf(cmd, label) == {j \in 1..Len(cmd.filters) : cmd.filters[j].out = label}

\* the length the encoder gives a stream of the graph: an input lasts its -t
\* value, scale, fps and copy keep the length, concat adds the lengths, and
\* xfade ends the left stream at offset + duration and lasts offset plus the
\* length of the right stream
RECURSIVE StreamLength(_, _)
StreamLength(cmd, label) ==
    IF label.name = "in" THEN cmd.inputs[label.n + 1].t
    ELSE LET part == cmd.filters[CHOOSE j \in ProducersOf(cmd, label) : TRUE]
         IN IF part.op = "xfade"
            THEN part.offset + StreamLength(cmd, part.ins[2])
            ELSE IF part.op = "concat"
            THEN StreamLength(cmd, part.ins[1]) + StreamLength(cmd, part.ins[2])
            ELSE StreamLength(cmd, part.ins[1])

C30_AssetOnlyForSuccessfulRun ==
    /\ assets <= 1
    /\ assets = 1 =>
          /\ Len(frameImages) >= 1
          /\ encoderRuns # <<>>
          /\ encoderRuns[Len(encoderRuns)].ok
    /\ (rpc = "done" /\ response.status # 200) => assets = 0

====
